---------------------------- MODULE Spec2Model ----------------------------
(***************************************************************************)
(* Criteria normalization and refinement of the company search backend.    *)
(*                                                                         *)
(* Strings are sequences of one-character strings; an accented letter is   *)
(* written as its base letter followed by "^" inside one element ("o^"     *)
(* stands for o-circumflex).  A similarity score is the exact fraction     *)
(* <<numerator, denominator>> of the float the code computes.              *)
(***************************************************************************)
EXTENDS Integers, Sequences, FiniteSets, TLC

(***************************************************************************)
(* Bounds of the model                                                     *)
(***************************************************************************)
\* number of lines read from each reference file
MaxEntries == 2
\* number of comma separated values the language model puts in one slot
MaxTokens == 2

(***************************************************************************)
(* State                                                                   *)
(***************************************************************************)
\* LocationMatcher: the three reference lists, the _initialized flag, and the
\* arguments and result of the last call
VARIABLES communes, departements, regions, initialized,
          fbQuery, fbPreferred, fbThreshold, fbResult,
          locIn, locOut, corrections, locPc

\* RefinementService: the arguments and result of the last decision, and the
\* round of the conversation that asks for it
VARIABLES rsCount, rsExtraction, rsRound, rsResult, rsPc, convRound, refineTurns

\* the question last generated and the refinable sections last listed
VARIABLES rsQuestion, rsRefinable

\* the stored conversation (status, extraction_result column, message count),
\* whether the count API was reached, and the outcome of the last request
VARIABLES convStatus, convStored, convMessages, apiCalled, reply

\* the raw output of the language model and its post-processed form
VARIABLES normIn, normOut, normPc

\* size matcher: the expression last parsed and its result, the extraction
\* last given to transform_size_field, what it returned, and the position
VARIABLES sizeIn, sizeResult, sizeExtraction, sizeOut, sizeCorrection, sizePc

\* sector matcher: the reference list, the last query and threshold, the
\* returned sector, and the position
VARIABLES sectors, sectIn, sectThreshold, sectOut, sectPc

\* _merge_extractions over the turns of a refinement: the partial extraction
\* first stored, the arguments and the result of the last merge, the number
\* of merges, and the position
VARIABLES mergeStored, mergeOld, mergeNew, mergeOut, mergeTurns, mergePc

\* activity matcher: the catalog file, the configured embedding model and the
\* embeddings cache file; the module-level singleton, the instance each caller
\* created, each caller's position, the instance it initializes and the
\* vectors it has generated so far;
\* the generations started and the cache writes done since the process
\* started, and the number of restarts
VARIABLES activitiesOnDisk, embeddingModel, embeddingsOnDisk,
          _activity_matcher, instances, actPc, actSelf, all_embeddings,
          generations, cacheWrites, restarts

\* the last activity search: how the embedding provider answered, what
\* find_similar_activities returned, and what _select_naf_codes made of it
VARIABLES findProvider, findOut, selection

locVars == <<communes, departements, regions, initialized,
             fbQuery, fbPreferred, fbThreshold, fbResult,
             locIn, locOut, corrections, locPc>>

refVars == <<rsCount, rsExtraction, rsRound, rsResult, rsPc, convRound, refineTurns,
             rsQuestion, rsRefinable>>

convVars == <<convStatus, convStored, convMessages, apiCalled, reply>>

normVars == <<normIn, normOut, normPc>>

sizeVars == <<sizeIn, sizeResult, sizeExtraction, sizeOut, sizeCorrection, sizePc>>

sectVars == <<sectors, sectIn, sectThreshold, sectOut, sectPc>>

mergeVars == <<mergeStored, mergeOld, mergeNew, mergeOut, mergeTurns, mergePc>>

actVars == <<activitiesOnDisk, embeddingModel, embeddingsOnDisk,
             _activity_matcher, instances, actPc, actSelf, all_embeddings,
             generations, cacheWrites, restarts, findProvider, findOut, selection>>

vars == <<locVars, refVars, convVars, normVars, sizeVars, sectVars, mergeVars, actVars>>

(***************************************************************************)
(* Text helpers (Python str semantics)                                     *)
(***************************************************************************)
\* Python None for a string field
None == <<"<None>">>

\* bool(value) of a string field: None and "" are falsy
Truthy(v) == v # None /\ v # <<>>

\* NFKD decomposition, removal of combining marks, lower()
FoldChar(c) ==
    CASE c = "L" -> "l" [] c = "P" -> "p" [] c = "B" -> "b" [] c = "R" -> "r"
      [] c = "G" -> "g" [] c = "C" -> "c" [] c = "S" -> "s" [] c = "X" -> "x"
      [] c = "A" -> "a" [] c = "Y" -> "y" [] c = "O" -> "o" [] c = "N" -> "n"
      [] c = "o^" -> "o" [] c = "e^" -> "e" [] c = "E^" -> "e"
      [] OTHER -> c

\* str.upper() on the letters the inputs hold ("a'" is a with grave accent)
UpperChar(c) ==
    CASE c = "a" -> "A" [] c = "b" -> "B" [] c = "c" -> "C" [] c = "d" -> "D"
      [] c = "e" -> "E" [] c = "g" -> "G" [] c = "i" -> "I" [] c = "l" -> "L"
      [] c = "m" -> "M" [] c = "n" -> "N" [] c = "o" -> "O" [] c = "p" -> "P"
      [] c = "s" -> "S" [] c = "t" -> "T" [] c = "u" -> "U" [] c = "x" -> "X"
      [] c = "a'" -> "A'"
      [] OTHER -> c

IsSpace(c) == c \in {" ", "\t", "\n"}

RECURSIVE LStrip(_)
LStrip(s) == IF s # <<>> /\ IsSpace(Head(s)) THEN LStrip(Tail(s)) ELSE s

RECURSIVE RStrip(_)
RStrip(s) ==
    IF s # <<>> /\ IsSpace(s[Len(s)]) THEN RStrip(SubSeq(s, 1, Len(s) - 1)) ELSE s

\* str.strip()
Strip(s) == RStrip(LStrip(s))

\* unicodedata.normalize + drop of combining marks + lower(), character-wise
FoldAll(s) == [i \in 1..Len(s) |-> FoldChar(s[i])]

\* a mutant of str.upper() that keeps the case
UpperAll_keep(s) == s

\* str.upper(), character-wise
UpperAll(s) == [i \in 1..Len(s) |-> UpperChar(s[i])]

normalize_text(text) == Strip(FoldAll(text))

Min2(a, b) == IF a <= b THEN a ELSE b
Max2(a, b) == IF a >= b THEN a ELSE b

\* one row of the dynamic programme: current_row after the inner loop over s2
RECURSIVE LevRow(_, _, _, _)
LevRow(previous_row, c1, s2, current_row) ==
    LET j == Len(current_row)   \* 1-based: current_row holds columns 0..j-1
    IN  IF j > Len(s2) THEN current_row
        ELSE LET insertions    == previous_row[j + 1] + 1
                 deletions     == current_row[j] + 1
                 substitutions == previous_row[j] + (IF c1 # s2[j] THEN 1 ELSE 0)
             IN  LevRow(previous_row, c1, s2,
                        Append(current_row,
                               Min2(insertions, Min2(deletions, substitutions))))

RECURSIVE LevRows(_, _, _, _)
LevRows(s1, s2, i, previous_row) ==
    IF i > Len(s1) THEN previous_row[Len(previous_row)]
    ELSE LevRows(s1, s2, i + 1, LevRow(previous_row, s1[i], s2, <<i>>))

levenshtein_distance(a, b) ==
    LET s1 == IF Len(a) < Len(b) THEN b ELSE a
        s2 == IF Len(a) < Len(b) THEN a ELSE b
    IN  IF Len(s2) = 0 THEN Len(s1)
        ELSE LevRows(s1, s2, 1, [k \in 1..(Len(s2) + 1) |-> k - 1])

(***************************************************************************)
(* Scores: exact fractions                                                 *)
(***************************************************************************)
ScoreOne == <<1, 1>>
ScoreZero == <<0, 1>>
ScoreEq(a, b) == a[1] * b[2] = b[1] * a[2]
ScoreGE(a, b) == a[1] * b[2] >= b[1] * a[2]
ScoreGT(a, b) == a[1] * b[2] > b[1] * a[2]

\* 1.0 - distance / max_len, kept as the fraction (max_len - distance) / max_len
SimilarityOf(distance, max_len) == <<max_len - distance, max_len>>

\* compute_similarity once both strings are normalized
SimilarityNormalized(n1, n2) ==
    IF n1 = n2 THEN ScoreOne
    ELSE IF n1 = <<>> \/ n2 = <<>> THEN ScoreZero
    ELSE SimilarityOf(levenshtein_distance(n1, n2), Max2(Len(n1), Len(n2)))

compute_similarity(s1, s2) == SimilarityNormalized(normalize_text(s1), normalize_text(s2))

(***************************************************************************)
(* Reference data: location names and the lines of the three files         *)
(***************************************************************************)
Lyon == <<"L", "y", "o", "n">>
LyonLower == <<"l", "y", "o", "n">>
Lyan == <<"L", "y", "a", "n">>
Laon == <<"L", "a", "o", "n">>
Paris == <<"P", "a", "r", "i", "s">>
ParisLower == <<"p", "a", "r", "i", "s">>
Rhone == <<"R", "h", "o", "n", "e">>
RhoneAccent == <<"R", "h", "o^", "n", "e">>
Guyane == <<"G", "u", "y", "a", "n", "e">>
Bretagne == <<"B", "r", "e", "t", "a", "g", "n", "e">>
BretagneLower == <<"b", "r", "e", "t", "a", "g", "n", "e">>
Xx == <<"X", "x">>

\* communes.txt, departements.txt, regions.txt: the lines a full read yields
CommunesFile == <<Lyon, Paris, Laon>>
DepartementsFile == <<Paris, RhoneAccent, Guyane>>
RegionsFile == <<Bretagne, Guyane, LyonLower>>

\* DEPARTEMENT_NUMBERS (the entries the model uses)
DEPARTEMENT_NUMBERS ==
    [k \in {<<"7", "5">>, <<"6", "9">>, <<"2", "A">>, <<"9", "7", "3">>} |->
        CASE k = <<"7", "5">> -> Paris
          [] k = <<"6", "9">> -> Rhone
          [] k = <<"2", "A">> -> <<"C", "o", "r", "s", "e", "-", "d", "u", "-", "S", "u", "d">>
          [] OTHER -> Guyane]

FIELDS == <<"commune", "departement", "region">>

(***************************************************************************)
(* LocationMatcher.find_best_match_across_all                              *)
(***************************************************************************)
\* the "no match" answer (Python None)
NoMatch == [value |-> <<>>, type |-> "none", score |-> ScoreZero]

DEFAULT_THRESHOLD == <<7, 10>>

\* _communes_normalized and its two siblings: (normalized, original) pairs
Normalized(list) == [i \in 1..Len(list) |-> [norm |-> normalize_text(list[i]), original |-> list[i]]]

Tag(normalized_list, field_type) ==
    [i \in 1..Len(normalized_list) |->
        [norm |-> normalized_list[i].norm, original |-> normalized_list[i].original,
         type |-> field_type]]

\* the three lists in the order the loop visits them
CatalogEntries(C, D, R) ==
    Tag(C, "commune") \o Tag(D, "departement") \o Tag(R, "region")

\* the inner loop: an entry equal after normalization is kept with score 1.0,
\* any other entry is kept when its similarity reaches the threshold
\* the body of the inner loop for one entry e
CollectOne(e, query_normalized, score, threshold, acc) ==
    IF e.norm = query_normalized
    THEN Append(acc, [value |-> e.original, type |-> e.type, score |-> ScoreOne])
    ELSE IF ScoreGE(score, threshold)
    THEN Append(acc, [value |-> e.original, type |-> e.type, score |-> score])
    ELSE acc

RECURSIVE CollectMatches(_, _, _, _)
CollectMatches(entries, query, threshold, acc) ==
    IF entries = <<>> THEN acc
    ELSE CollectMatches(Tail(entries), query, threshold,
                        CollectOne(Head(entries), normalize_text(query),
                                   compute_similarity(query, Head(entries).original),
                                   threshold, acc))

\* list.sort(key=score, reverse=True): stable, equal scores keep their order
RECURSIVE InsertDesc(_, _)
InsertDesc(sorted, m) ==
    IF sorted = <<>> THEN <<m>>
    ELSE IF ScoreGT(m.score, Head(sorted).score) THEN <<m>> \o sorted
    ELSE <<Head(sorted)>> \o InsertDesc(Tail(sorted), m)

RECURSIVE SortDesc(_, _)
SortDesc(list, acc) ==
    IF list = <<>> THEN acc ELSE SortDesc(Tail(list), InsertDesc(acc, Head(list)))

\* a mutant of the tie-break that ignores preferred_type
PickTied_first(tied_matches, preferred_type) == tied_matches[1]

\* a mutant of the tie-break that takes the last tied match
PickTied_last(tied_matches, preferred_type) == tied_matches[Len(tied_matches)]

PickTied(tied_matches, preferred_type) ==
    IF Len(tied_matches) = 1 THEN tied_matches[1]
    ELSE LET SamePreferred(m) == m.type = preferred_type
             preferred == SelectSeq(tied_matches, SamePreferred)
         IN  IF preferred_type # "none" /\ preferred # <<>> THEN preferred[1]
             ELSE tied_matches[1]

\* the matches tied at the best score, in sorted order
TiedMatches(sorted) ==
    LET Tied(m) == ScoreEq(m.score, sorted[1].score)
    IN  SelectSeq(sorted, Tied)

\* the part of the function after the collection loop
BestOf(all_matches, preferred_type) ==
    IF all_matches = <<>> THEN NoMatch
    ELSE PickTied(TiedMatches(SortDesc(all_matches, <<>>)), preferred_type)

find_best_match_across_all(query, preferred_type, threshold, C, D, R) ==
    IF ~Truthy(query) THEN NoMatch
    ELSE BestOf(CollectMatches(CatalogEntries(C, D, R), query, threshold, <<>>),
                preferred_type)

(***************************************************************************)
(* LocationMatcher.match_locations                                         *)
(***************************************************************************)
\* value.split(',')
RECURSIVE SplitOnComma(_, _, _)
SplitOnComma(s, current, parts) ==
    IF s = <<>> THEN Append(parts, current)
    ELSE IF Head(s) = "," THEN SplitOnComma(Tail(s), <<>>, Append(parts, current))
    ELSE SplitOnComma(Tail(s), Append(current, Head(s)), parts)

NonEmpty(p) == p # <<>>

_split_multi_values(value) ==
    IF ~Truthy(value) THEN <<>>
    ELSE LET raw == SplitOnComma(value, <<>>, <<>>)
             parts == [i \in 1..Len(raw) |-> Strip(raw[i])]
         IN  SelectSeq(parts, NonEmpty)

\* ", ".join(values)
RECURSIVE JoinCommaSpace(_)
JoinCommaSpace(values) ==
    IF values = <<>> THEN <<>>
    ELSE IF Len(values) = 1 THEN values[1]
    ELSE values[1] \o <<",", " ">> \o JoinCommaSpace(Tail(values))

InSeq(x, list) == \E i \in 1..Len(list) : list[i] = x

LocationCorrection(ov, mv, of, mf, sc) ==
    [original_value |-> ov, matched_value |-> mv,
     original_field |-> of, matched_field |-> mf, score |-> sc]

was_corrected(c) ==
    c.original_value # c.matched_value \/ c.original_field # c.matched_field

field_changed(c) == c.original_field # c.matched_field

\* the 2-3 character department number branch (lines 322-345)
CodeApplies(loc) ==
    /\ Truthy(loc.code_postal)
    /\ Len(Strip(loc.code_postal)) <= 3
    /\ UpperAll(Strip(loc.code_postal)) \in DOMAIN DEPARTEMENT_NUMBERS

DeptOfCode(loc) == DEPARTEMENT_NUMBERS[UpperAll(Strip(loc.code_postal))]

\* a mutant that overwrites a department slot that was already set
AfterCode_overwrite(loc) ==
    IF CodeApplies(loc)
    THEN [loc EXCEPT !.departement = DeptOfCode(loc), !.code_postal = None]
    ELSE loc

AfterCode(loc) ==
    IF CodeApplies(loc)
    THEN [loc EXCEPT !.departement = IF ~Truthy(loc.departement) THEN DeptOfCode(loc) ELSE @,
                     !.code_postal = None]
    ELSE loc

CodeCorrections(loc) ==
    IF CodeApplies(loc)
    THEN <<LocationCorrection(Strip(loc.code_postal), DeptOfCode(loc),
                              "code_postal", "departement", ScoreOne)>>
    ELSE <<>>

\* location_values: (field, value) pairs in the order commune, departement, region
RECURSIVE LocationValues(_, _)
LocationValues(loc, k) ==
    IF k > Len(FIELDS) THEN <<>>
    ELSE LET field == FIELDS[k]
             individual_values == _split_multi_values(loc[field])
         IN  [i \in 1..Len(individual_values) |->
                  [field |-> field, value |-> individual_values[i]]]
             \o LocationValues(loc, k + 1)

\* one iteration of the matching loop on the accumulator
\* acc = [matched_fields |-> [commune, departement, region], corrections |-> seq]
\* what the loop body does with the result of the search
RecordResult(acc, original_field, value, result) ==
    IF result # NoMatch
    THEN IF ~InSeq(result.value, acc.matched_fields[result.type])
         THEN [matched_fields |->
                   [acc.matched_fields EXCEPT ![result.type] = Append(@, result.value)],
               corrections |-> Append(acc.corrections,
                   LocationCorrection(value, result.value, original_field,
                                      result.type, result.score))]
         ELSE acc
    ELSE [acc EXCEPT !.corrections =
              Append(@, LocationCorrection(value, <<>>, original_field,
                                           original_field, ScoreZero))]

MatchStep(acc, original_field, value, C, D, R) ==
    RecordResult(acc, original_field, value,
                 find_best_match_across_all(value, original_field, DEFAULT_THRESHOLD, C, D, R))

RECURSIVE MatchLoop(_, _, _, _, _)
MatchLoop(location_values, acc, C, D, R) ==
    IF location_values = <<>> THEN acc
    ELSE MatchLoop(Tail(location_values),
                   MatchStep(acc, Head(location_values).field,
                             Head(location_values).value, C, D, R),
                   C, D, R)

\* the join that puts a semicolon after the first value
JoinOrNone_semicolon(values) ==
    IF values = <<>> THEN None
    ELSE IF Len(values) = 1 THEN values[1]
    ELSE values[1] \o <<";">> \o JoinCommaSpace(Tail(values))

JoinOrNone(values) == IF values # <<>> THEN JoinCommaSpace(values) ELSE None

\* matched_fields and corrections before the loop
StartAcc(localisation) ==
    [matched_fields |-> [commune |-> <<>>, departement |-> <<>>, region |-> <<>>],
     corrections |-> CodeCorrections(localisation)]

\* a mutant that marks the location absent when nothing matched
Rebuild_drops_present(extraction_result, loc1, acc) ==
    [result |-> [extraction_result EXCEPT !.localisation =
                    [loc1 EXCEPT
                        !.commune = JoinOrNone(acc.matched_fields.commune),
                        !.departement = JoinOrNone(acc.matched_fields.departement),
                        !.region = JoinOrNone(acc.matched_fields.region),
                        !.present = \/ acc.matched_fields.commune # <<>>
                                    \/ acc.matched_fields.departement # <<>>
                                    \/ acc.matched_fields.region # <<>>]],
     corrections |-> acc.corrections]

\* the three slots rebuilt from the accumulated values
Rebuild(extraction_result, loc1, acc) ==
    [result |-> [extraction_result EXCEPT !.localisation =
                    [loc1 EXCEPT
                        !.commune = JoinOrNone(acc.matched_fields.commune),
                        !.departement = JoinOrNone(acc.matched_fields.departement),
                        !.region = JoinOrNone(acc.matched_fields.region)]],
     corrections |-> acc.corrections]

match_locations(extraction_result, init, C, D, R) ==
    LET localisation == extraction_result.localisation
    IN  IF ~init THEN [result |-> extraction_result, corrections |-> <<>>]
        ELSE IF ~localisation.exists \/ ~localisation.present
        THEN [result |-> extraction_result, corrections |-> <<>>]
        ELSE Rebuild(extraction_result, AfterCode(localisation),
                     MatchLoop(LocationValues(AfterCode(localisation), 1),
                               StartAcc(localisation), C, D, R))

(***************************************************************************)
(* Inputs of the location matcher                                          *)
(***************************************************************************)
Parls == <<"P", "a", "r", "l", "s">>

\* what LocationMatcher.initialize() leaves in a list: nothing when the file
\* is missing, else its lines
FileReads(file) == {<<>>, Normalized(SubSeq(file, 1, Min2(MaxEntries, Len(file))))}

RECURSIVE TokenLists(_, _)
TokenLists(pool, n) ==
    IF n = 0 THEN {<<>>}
    ELSE TokenLists(pool, n - 1) \cup
         {Append(l, t) : l \in {x \in TokenLists(pool, n - 1) : Len(x) = n - 1}, t \in pool}

\* the values the language model writes in a slot: null, or values joined by ", "
SlotValues(pool) ==
    {None} \cup {JoinCommaSpace(l) : l \in TokenLists(pool, MaxTokens) \ {<<>>}}

CommuneSlot == SlotValues({Lyon, Lyan})
DepartementSlot == SlotValues({BretagneLower, Rhone})
RegionSlot == SlotValues({Lyon, Xx})
CodeSlot == {<<"7", "5">>, <<" ", "6", "9">>, <<"2", "a">>,
             <<"7", "5", "0", "0", "1">>}

Localisation(ex, pr, cp, co, de, re) ==
    [exists |-> ex, present |-> pr, code_postal |-> cp,
     commune |-> co, departement |-> de, region |-> re]

\* the other four sections, which match_locations receives and hands back
OtherSections == {"activite: restauration", "taille: PME"}

RegionOdd == {<<>>, Lyon \o <<",", ",", " ">>, <<" ", ",">>}

\* extractions without a postal code, with one, and without a present location
Extractions ==
    {[localisation |-> Localisation(TRUE, TRUE, None, co, de, re), rest |-> "activite: restauration"] :
        co \in CommuneSlot, de \in {None, BretagneLower, Rhone},
        re \in {None, Lyon, Xx} \cup RegionOdd}
    \cup
    {[localisation |-> Localisation(TRUE, TRUE, None, None, de, re), rest |-> "activite: restauration"] :
        de \in DepartementSlot, re \in RegionSlot}
    \cup
    {[localisation |-> Localisation(TRUE, TRUE, cp, co, de, None), rest |-> "activite: restauration"] :
        cp \in CodeSlot, co \in {None, Lyon, Rhone}, de \in {None, <<>>, Rhone, BretagneLower}}
    \cup
    {[localisation |-> Localisation(ex, FALSE, None, co, None, None), rest |-> r] :
        ex \in BOOLEAN, co \in {None, Lyon}, r \in OtherSections}

Queries ==
    {CommunesFile[i] : i \in 1..Len(CommunesFile)}
    \cup {DepartementsFile[i] : i \in 1..Len(DepartementsFile)}
    \cup {RegionsFile[i] : i \in 1..Len(RegionsFile)}
    \cup {LyonLower, Lyan, ParisLower, Parls, Rhone, Xx, <<>>, <<" ">>,
          <<" ">> \o Lyon \o <<" ">>}

PreferredTypes == {"none", "commune", "departement", "region"}
Thresholds == {DEFAULT_THRESHOLD, <<1, 2>>, <<1, 1>>}

NoExtraction == [localisation |-> Localisation(FALSE, FALSE, None, None, None, None),
                 rest |-> "none"]

FbIdle ==
    /\ fbQuery = <<>>
    /\ fbPreferred = "none"
    /\ fbThreshold = DEFAULT_THRESHOLD
    /\ fbResult = NoMatch

LocIdle ==
    /\ locIn = NoExtraction
    /\ locOut = NoExtraction
    /\ corrections = <<>>
    /\ locPc = "idle"

ResetFb ==
    /\ fbQuery' = <<>>
    /\ fbPreferred' = "none"
    /\ fbThreshold' = DEFAULT_THRESHOLD
    /\ fbResult' = NoMatch

ResetLoc ==
    /\ locIn' = NoExtraction
    /\ locOut' = NoExtraction
    /\ corrections' = <<>>
    /\ locPc' = "idle"

\* get_location_matcher(): construction followed by initialize(); a read that
\* raises leaves _initialized false and the later lists empty
InitLoc ==
    /\ communes \in FileReads(CommunesFile)
    /\ departements \in FileReads(DepartementsFile)
    /\ regions \in FileReads(RegionsFile)
    /\ initialized \in BOOLEAN
    /\ ~initialized => regions = <<>>
    /\ FbIdle
    /\ LocIdle

\* the matcher keeps nothing between two calls: a call starts from the idle
\* state and LocReturn brings the caller back to it
Idle == locPc = "idle"

FindCall ==
    \E q \in Queries, p \in PreferredTypes, t \in Thresholds :
        /\ Idle
        /\ fbQuery' = q
        /\ fbPreferred' = p
        /\ fbThreshold' = t
        /\ fbResult' = find_best_match_across_all(q, p, t, communes, departements, regions)
        /\ locPc' = "found"
        /\ UNCHANGED <<locIn, locOut, corrections>>
        /\ UNCHANGED <<communes, departements, regions, initialized>>
        /\ UNCHANGED <<refVars, convVars, normVars, sizeVars, sectVars, mergeVars, actVars>>

MatchCall ==
    \E x \in Extractions :
        LET r == match_locations(x, initialized, communes, departements, regions)
        IN  /\ Idle
            /\ locIn' = x
            /\ locOut' = r.result
            /\ corrections' = r.corrections
            /\ locPc' = "done"
            /\ UNCHANGED <<fbQuery, fbPreferred, fbThreshold, fbResult>>
            /\ UNCHANGED <<communes, departements, regions, initialized>>
            /\ UNCHANGED <<refVars, convVars, normVars, sizeVars, sectVars, mergeVars, actVars>>

LocReturn ==
    /\ ~Idle
    /\ ResetFb
    /\ ResetLoc
    /\ UNCHANGED <<communes, departements, regions, initialized>>
    /\ UNCHANGED <<refVars, convVars, normVars, sizeVars, sectVars, mergeVars, actVars>>

NextLoc == FindCall \/ MatchCall \/ LocReturn

(***************************************************************************)
(* Properties of find_best_match_across_all                                *)
(***************************************************************************)
Entries == CatalogEntries(communes, departements, regions)

\* the score of entry i against the token of the last call
Sc(i) == compute_similarity(fbQuery, Entries[i].original)

Candidates == {i \in 1..Len(Entries) : ScoreGE(Sc(i), fbThreshold)}
BestCandidates == {i \in Candidates : \A j \in Candidates : ScoreGE(Sc(i), Sc(j))}
PreferredBest == {i \in BestCandidates : Entries[i].type = fbPreferred}
MinOf(S) == CHOOSE i \in S : \A j \in S : i <= j

\* entries equal to the token after normalization
SameNorm == {i \in 1..Len(Entries) : Entries[i].norm = normalize_text(fbQuery)}

QueryIsEntry == \E i \in 1..Len(Entries) : Entries[i].original = fbQuery

\* C6 (as stated): for every entry e of a catalog, find_best_match_across_all(e)
\* returns (e, the category of the catalog that holds e, 1.0).
C6_EntryReturnsItself ==
    (locPc = "found" /\ fbPreferred = "none" /\ fbThreshold = DEFAULT_THRESHOLD)
    => \A i \in 1..Len(Entries) :
          Entries[i].original = fbQuery
          => fbResult = [value |-> fbQuery, type |-> Entries[i].type, score |-> ScoreOne]

\* C6 (amended): for every entry e of a catalog, find_best_match_across_all(e)
\* returns, with score 1.0, the first entry in iteration order (communes,
\* departements, regions) that equals e after normalization, with that entry's
\* category; this is (e, category of e, 1.0) when no other entry normalizes like e.
C6_EntryReturnsFirstEqual ==
    (locPc = "found" /\ fbPreferred = "none" /\ QueryIsEntry)
    => /\ fbResult = [value |-> Entries[MinOf(SameNorm)].original,
                      type |-> Entries[MinOf(SameNorm)].type, score |-> ScoreOne]
       /\ \A i \in 1..Len(Entries) :
             (Entries[i].original = fbQuery /\ SameNorm = {i})
             => fbResult = [value |-> fbQuery, type |-> Entries[i].type, score |-> ScoreOne]

\* C6 witness: an entry held by two catalogs was looked up and came back as a commune
C6_Witness ==
    /\ locPc = "found" /\ fbPreferred = "none" /\ fbQuery = Paris
    /\ Cardinality(SameNorm) = 2
    /\ fbResult = [value |-> Paris, type |-> "commune", score |-> ScoreOne]

\* C7: find_best_match_across_all returns none exactly when no entry of the three
\* catalogs scores >= threshold against the token; otherwise it returns an entry
\* of maximal score (>= threshold), of the preferred category if one is tied at
\* that score, else the first tied entry in iteration order.
C7_BestMatchRule ==
    locPc = "found"
    => IF Candidates = {} THEN fbResult = NoMatch
       ELSE LET k == IF PreferredBest # {} THEN MinOf(PreferredBest)
                     ELSE MinOf(BestCandidates)
            IN  /\ fbResult # NoMatch
                /\ fbResult.value = Entries[k].original
                /\ fbResult.type = Entries[k].type
                /\ ScoreEq(fbResult.score, Sc(k))
                /\ ScoreGE(fbResult.score, fbThreshold)

\* C7 witness: two entries tied at the best score, the later one of the
\* preferred category, and it was returned
C7_Witness ==
    /\ locPc = "found"
    /\ Cardinality(BestCandidates) = 2
    /\ PreferredBest # {}
    /\ MinOf(PreferredBest) # MinOf(BestCandidates)
    /\ fbResult.type = fbPreferred
    /\ ~ScoreEq(fbResult.score, ScoreOne)

(***************************************************************************)
(* Properties of match_locations                                           *)
(***************************************************************************)
\* a call of match_locations on a present location by an initialized matcher
Matched == locPc = "done" /\ initialized /\ locIn.localisation.exists
           /\ locIn.localisation.present

InLoc == locIn.localisation
OutLoc == locOut.localisation

\* the (slot, token) pairs the matching loop visits
Tokens == LocationValues(AfterCode(InLoc), 1)

\* the corrections that come from the three slots
IsSlotCorrection(c) == c.original_field # "code_postal"
SlotCorrections == SelectSeq(corrections, IsSlotCorrection)

\* the comma separated values of a slot
SlotSet(v) == {_split_multi_values(v)[i] : i \in 1..Len(_split_multi_values(v))}

Resolve(t) ==
    find_best_match_across_all(t.value, t.field, DEFAULT_THRESHOLD,
                               communes, departements, regions)

\* C8: match_locations emits exactly one LocationCorrection for each non-empty
\* comma-separated token of the commune, department and region slots: canonical
\* value, matched category and score when the token resolves, else matched_value
\* "", score 0.0 and matched_category = original_category.
C8_OneCorrectionPerToken ==
    Matched
    => /\ Len(SlotCorrections) = Len(Tokens)
       /\ \A i \in 1..Len(Tokens) :
             i <= Len(SlotCorrections)
             => LET c == SlotCorrections[i]
                    r == Resolve(Tokens[i])
                IN  /\ c.original_value = Tokens[i].value
                    /\ c.original_field = Tokens[i].field
                    /\ IF r # NoMatch
                       THEN c.matched_value = r.value /\ c.matched_field = r.type
                            /\ c.score = r.score
                       ELSE c.matched_value = <<>> /\ c.matched_field = c.original_field
                            /\ c.score = ScoreZero

\* the catalogs (categories) holding an entry equal to the token after normalization
CategoriesOf(value) ==
    {Entries[i].type : i \in {j \in 1..Len(Entries) : Entries[j].norm = normalize_text(value)}}

Canonical(value) ==
    Entries[MinOf({j \in 1..Len(Entries) : Entries[j].norm = normalize_text(value)})].original

\* C9: a token of slot S that equals, after normalization, an entry of exactly
\* one catalog, of category C # S, is moved: the canonical entry is in slot C of
\* the result, slot S no longer holds the token, and the token has a correction
\* with score 1.0, matched_category = C and category_changed.
C9_TokenMovedToItsCategory ==
    Matched
    => \A i \in 1..Len(Tokens) :
          LET t == Tokens[i]
          IN  (Cardinality(CategoriesOf(t.value)) = 1 /\ CategoriesOf(t.value) # {t.field})
              => LET cat == CHOOSE x \in CategoriesOf(t.value) : TRUE
                 IN  /\ Canonical(t.value) \in SlotSet(OutLoc[cat])
                     /\ t.value \notin SlotSet(OutLoc[t.field])
                     /\ \E k \in 1..Len(corrections) :
                           /\ corrections[k].original_value = t.value
                           /\ corrections[k].original_field = t.field
                           /\ corrections[k].matched_value = Canonical(t.value)
                           /\ corrections[k].matched_field = cat
                           /\ corrections[k].score = ScoreOne
                           /\ field_changed(corrections[k])

\* the department entries equal to the code's department name after normalization
DeptEntriesOfCode ==
    {j \in 1..Len(departements) : departements[j].norm = normalize_text(DeptOfCode(InLoc))}

\* what match_locations returns for the same extraction without its postal code
WithoutCode ==
    match_locations([locIn EXCEPT !.localisation.code_postal = None],
                    initialized, communes, departements, regions)

\* the part of C10 that holds as stated: the code correction comes first, the
\* code field is cleared, and a department slot that was set is matched as if
\* there had been no code
C10_CodeCommon ==
    /\ corrections # <<>>
    /\ corrections[1] = LocationCorrection(Strip(InLoc.code_postal), DeptOfCode(InLoc),
                                           "code_postal", "departement", ScoreOne)
    /\ OutLoc.code_postal = None
    /\ Truthy(InLoc.departement)
       => /\ OutLoc.departement = WithoutCode.result.localisation.departement
          /\ OutLoc.commune = WithoutCode.result.localisation.commune
          /\ OutLoc.region = WithoutCode.result.localisation.region
          /\ Tail(corrections) = WithoutCode.corrections

\* C10 (as stated): for a present location whose code is a 2-3 character code of
\* the table, match_locations records the correction (code -> department name,
\* 1.0) first, clears the code, writes the department name into the department
\* slot only if it was empty, and then the result's department slot is that name.
C10_CodeBecomesDepartment ==
    (Matched /\ CodeApplies(InLoc))
    => /\ C10_CodeCommon
       /\ ~Truthy(InLoc.departement) => OutLoc.departement = DeptOfCode(InLoc)

\* C10 (amended): as stated, except for the last part: when the department slot
\* was empty and the department catalog has an entry equal to the department
\* name after normalization, the result's department slot holds that catalog
\* entry among its comma separated values.
C10_CodeBecomesCatalogDepartment ==
    (Matched /\ CodeApplies(InLoc))
    => /\ C10_CodeCommon
       /\ (~Truthy(InLoc.departement) /\ DeptEntriesOfCode # {})
          => departements[MinOf(DeptEntriesOfCode)].original \in SlotSet(OutLoc.departement)

\* C10 witness: " 69" was rewritten to the department name Rhone, matched to the
\* catalog's accented entry, and the slot that was empty now holds that entry
C10_Witness ==
    /\ Matched /\ CodeApplies(InLoc)
    /\ ~Truthy(InLoc.departement)
    /\ DeptOfCode(InLoc) = Rhone
    /\ OutLoc.departement = RhoneAccent
    /\ Len(corrections) = 2

\* C10 witness of the other branch: the department slot was set and is kept
C10_WitnessKept ==
    /\ Matched /\ CodeApplies(InLoc)
    /\ InLoc.departement = Rhone
    /\ DeptOfCode(InLoc) = Paris
    /\ OutLoc.departement = RhoneAccent

\* every token of the three slots fails to match
AllTokensFail == \A i \in 1..Len(Tokens) : Resolve(Tokens[i]) = NoMatch

\* the part of C11 that does not depend on the code field: the present flag and
\* the other sections are kept, and a missing or absent location comes back
\* unchanged with no correction
C11_FrameCommon ==
    locPc = "done"
    => /\ locOut.rest = locIn.rest
       /\ OutLoc.present = InLoc.present
       /\ OutLoc.exists = InLoc.exists
       /\ (~InLoc.exists \/ ~InLoc.present) => (locOut = locIn /\ corrections = <<>>)

\* C11 (as stated): match_locations never changes the location's present flag
\* nor another section; a missing or absent location comes back unchanged with
\* no correction; and when every token fails to match, present is kept and only
\* the three category slots are set to null.
C11_OnlySlotsNulled ==
    /\ C11_FrameCommon
    /\ (Matched /\ AllTokensFail)
       => OutLoc = [InLoc EXCEPT !.commune = None, !.departement = None,
                                 !.region = None]

\* C11 (amended): as stated, except that when the code field held a 2-3
\* character code of the code->department table, the code field is set to null
\* as well (and the department name written by that rewrite is one of the tokens).
C11_OnlySlotsAndCodeNulled ==
    /\ C11_FrameCommon
    /\ (Matched /\ AllTokensFail)
       => /\ OutLoc = [InLoc EXCEPT !.commune = None, !.departement = None,
                                    !.region = None,
                                    !.code_postal =
                                        IF CodeApplies(InLoc) THEN None ELSE @]
          /\ OutLoc.present

\* C11 witness: a present location whose only token matches nothing comes back
\* present with its three slots null and one failed correction
C11_Witness ==
    /\ Matched /\ AllTokensFail
    /\ Len(Tokens) = 1 /\ Len(corrections) = 1
    /\ InLoc.region = Xx
    /\ OutLoc.present /\ OutLoc.region = None

\* C11 witness of the code field: the department name of code 2A matches
\* nothing, and the code field comes back null
C11_WitnessCode ==
    /\ Matched /\ AllTokensFail /\ CodeApplies(InLoc)
    /\ Tokens # <<>>
    /\ OutLoc.code_postal = None /\ OutLoc.departement = None

\* C28: every LocationCorrection that match_locations returns with a
\* non-empty matched_value is reflected in the returned bundle: matched_value
\* is one of the comma-separated values of the slot that matched_category
\* names.
C28_CorrectionsReflected ==
    Matched =>
        \A k \in 1..Len(corrections) :
            corrections[k].matched_value # <<>> =>
                corrections[k].matched_value
                    \in SlotSet(OutLoc[corrections[k].matched_field])

\* match_locations applied to the bundle it returned
Again == match_locations(locOut, initialized, communes, departements, regions)

\* C29: match_locations is idempotent on its own output: applied to a bundle
\* it returned, it yields the same commune, department and region slots and
\* no correction with was_corrected true.
C29_IdempotentOnOutput ==
    locPc = "done" =>
        /\ Again.result.localisation.commune = OutLoc.commune
        /\ Again.result.localisation.departement = OutLoc.departement
        /\ Again.result.localisation.region = OutLoc.region
        /\ \A k \in 1..Len(Again.corrections) : ~was_corrected(Again.corrections[k])

\* C29 witness: the first call corrected two values of a slot and moved or
\* rewrote them; the second call finds the slots as it left them
C29_Witness ==
    /\ Matched
    /\ \E k \in 1..Len(corrections) :
        was_corrected(corrections[k]) /\ corrections[k].matched_value # <<>>
    /\ \E f \in {"commune", "departement", "region"} :
        Cardinality(SlotSet(OutLoc[f])) >= 2
    /\ Len(Again.corrections) >= 2
    /\ Again.result.localisation = OutLoc

(***************************************************************************)
(* RefinementService                                                       *)
(***************************************************************************)
REFINEMENT_THRESHOLD == 500
MAX_REFINEMENT_ROUNDS == 3

\* largest round number a caller passes, largest bracket list a size section holds
MaxRound == 4
MaxTranches == 4

REFINEMENT_PRIORITY ==
    <<"localisation", "taille_entreprise", "criteres_financiers", "criteres_juridiques">>

get_missing_criteria(extraction) ==
    LET Missing(criterion) == ~extraction[criterion].present
    IN  SelectSeq(REFINEMENT_PRIORITY, Missing)

get_refinable_criteria(extraction) ==
    LET loc == extraction.localisation
        taille == extraction.taille_entreprise
        locPart ==
            IF loc.present
            THEN IF Truthy(loc.region) /\ ~Truthy(loc.commune) /\ ~Truthy(loc.departement)
                 THEN <<"localisation">>
                 ELSE IF Truthy(loc.departement) /\ ~Truthy(loc.commune)
                 THEN <<"localisation">>
                 ELSE <<>>
            ELSE <<>>
        taillePart ==
            IF taille.present /\ Len(taille.tranche_effectif) > 3
            THEN <<"taille_entreprise">>
            ELSE <<>>
    IN  locPart \o taillePart

\* a mutant that stops one round late
should_deliver_results_late(count, extraction, refinement_round) ==
    \/ count <= REFINEMENT_THRESHOLD
    \/ refinement_round > MAX_REFINEMENT_ROUNDS
    \/ (get_missing_criteria(extraction) = <<>> /\ get_refinable_criteria(extraction) = <<>>)

\* a mutant that asks again at exactly the threshold
should_deliver_results_strict(count, extraction, refinement_round) ==
    \/ count < REFINEMENT_THRESHOLD
    \/ refinement_round >= MAX_REFINEMENT_ROUNDS
    \/ (get_missing_criteria(extraction) = <<>> /\ get_refinable_criteria(extraction) = <<>>)

should_deliver_results(count, extraction, refinement_round) ==
    IF count <= REFINEMENT_THRESHOLD THEN TRUE
    ELSE IF refinement_round >= MAX_REFINEMENT_ROUNDS THEN TRUE
    ELSE IF get_missing_criteria(extraction) = <<>> /\ get_refinable_criteria(extraction) = <<>>
    THEN TRUE
    ELSE FALSE

\* REFINEMENT_QUESTIONS: a template is the sequence of its pieces, "{count}"
\* being the placeholder
REFINEMENT_QUESTIONS ==
    [criterion \in {"localisation", "taille_entreprise", "criteres_financiers",
                    "criteres_juridiques"} |->
        CASE criterion = "localisation" ->
                [base |-> <<"Dans quelle zone geographique ?">>,
                 with_count |-> <<"J'ai trouve ", "{count}", " entreprises. Dans quelle region, departement ou ville souhaitez-vous chercher ?">>,
                 follow_up |-> <<"Pouvez-vous preciser la zone geographique ? (region, departement ou ville)">>]
          [] criterion = "taille_entreprise" ->
                [base |-> <<"Quelle taille d'entreprise recherchez-vous ?">>,
                 with_count |-> <<"J'ai trouve ", "{count}", " entreprises. Quelle taille vous interesse ? (TPE, PME, ETI, grand groupe)">>,
                 follow_up |-> <<"Pouvez-vous preciser la taille d'entreprise ? (TPE: 0-9 salaries, PME: 10-249, ETI: 250-4999, GE: 5000+)">>]
          [] criterion = "criteres_financiers" ->
                [base |-> <<"Avez-vous des criteres financiers ?">>,
                 with_count |-> <<"J'ai trouve ", "{count}", " entreprises. Avez-vous un critere de chiffre d'affaires minimum ?">>,
                 follow_up |-> <<"Souhaitez-vous filtrer par chiffre d'affaires ? (ex: CA > 1M EUR)">>]
          [] OTHER ->
                [base |-> <<"Souhaitez-vous uniquement les sieges sociaux ?">>,
                 with_count |-> <<"J'ai trouve ", "{count}", " entreprises. Voulez-vous filtrer uniquement les sieges sociaux (pas les etablissements secondaires) ?">>,
                 follow_up |-> <<"Filtrer uniquement les sieges sociaux (oui/non) ?">>]]

\* question.format(count=count): every placeholder becomes the decimal count
Format(template, count) ==
    [i \in 1..Len(template) |->
        IF template[i] = "{count}" THEN ToString(count) ELSE template[i]]

Asked(question, criterion) == [question |-> question, criterion |-> criterion]

\* the fallback of generate_refinement_question
GenericQuestion(count) ==
    Asked(<<"J'ai trouve ", ToString(count), " entreprises, ce qui est beaucoup. ",
            "Pouvez-vous preciser vos criteres pour affiner la recherche ?">>, "generic")

\* the part of generate_refinement_question after the missing sections
RefinableQuestion(count, refinable) ==
    IF refinable # <<>>
    THEN Asked(Format(REFINEMENT_QUESTIONS[refinable[1]].follow_up, count), refinable[1])
    ELSE GenericQuestion(count)

MissingQuestion(count, missing) ==
    Asked(Format(REFINEMENT_QUESTIONS[missing[1]].with_count, count), missing[1])

\* a mutant that asks about the last missing section
generate_refinement_question_last(count, extraction, refinement_round) ==
    IF get_missing_criteria(extraction) # <<>>
    THEN MissingQuestion(count, <<get_missing_criteria(extraction)[
                                        Len(get_missing_criteria(extraction))]>>)
    ELSE RefinableQuestion(count, get_refinable_criteria(extraction))

generate_refinement_question(count, extraction, refinement_round) ==
    IF get_missing_criteria(extraction) # <<>>
    THEN MissingQuestion(count, get_missing_criteria(extraction))
    ELSE RefinableQuestion(count, get_refinable_criteria(extraction))

\* len(tranches) of a present size section whose bracket list is null
TypeError == <<"<TypeError>">>

RefinableRaises(extraction) ==
    /\ extraction.taille_entreprise.present
    /\ extraction.taille_entreprise.tranche_effectif = None

\* inputs of the controller
Counts == {0, REFINEMENT_THRESHOLD - 1, REFINEMENT_THRESHOLD, REFINEMENT_THRESHOLD + 1,
           10 * REFINEMENT_THRESHOLD}

Section(pr) == [present |-> pr]
Taille(pr, n) == [present |-> pr, tranche_effectif |-> [i \in 1..n |-> i]]

Bundles ==
    {[localisation |-> Localisation(TRUE, lp, None, co, de, re),
      taille_entreprise |-> Taille(tp, n),
      criteres_financiers |-> Section(fp),
      criteres_juridiques |-> Section(jp)] :
        lp \in BOOLEAN, co \in {None, Lyon}, de \in {None, RhoneAccent},
        re \in {None, Bretagne}, tp \in BOOLEAN, n \in {0, MaxTranches - 1, MaxTranches},
        fp \in BOOLEAN, jp \in BOOLEAN}

\* the turns of a conversation: counts around the threshold, the bundles with
\* nothing but a region, with everything narrowed down, and in between
TurnCounts == {REFINEMENT_THRESHOLD, REFINEMENT_THRESHOLD + 1}
TurnBundles ==
    {x \in Bundles :
        /\ x.localisation.commune = None
        /\ x.localisation.departement = None
        /\ x.localisation.present = Truthy(x.localisation.region)
        /\ x.criteres_financiers.present = x.criteres_juridiques.present
        /\ Len(x.taille_entreprise.tranche_effectif) =
              (IF x.taille_entreprise.present THEN MaxTranches - 1 ELSE 0)}

NoBundle ==
    [localisation |-> Localisation(FALSE, FALSE, None, None, None, None),
     taille_entreprise |-> Taille(FALSE, 0),
     criteres_financiers |-> Section(FALSE),
     criteres_juridiques |-> Section(FALSE)]

\* the bundles whose size section has a null bracket list
NullListBundles ==
    {[x EXCEPT !.taille_entreprise.tranche_effectif = None] : x \in Bundles}

NoQuestion == Asked(<<>>, "none")

InitRef ==
    /\ rsCount = 0
    /\ rsExtraction = NoBundle
    /\ rsRound = 0
    /\ rsResult = FALSE
    /\ rsPc = "idle"
    /\ convRound = 1
    /\ refineTurns = 0
    /\ rsQuestion = NoQuestion
    /\ rsRefinable = <<>>

\* should_deliver_results applied to any count, bundle and round
ShouldDeliverCall ==
    \E c \in Counts, x \in Bundles, r \in 0..MaxRound :
        /\ rsPc = "idle"
        /\ rsCount' = c
        /\ rsExtraction' = x
        /\ rsRound' = r
        /\ rsResult' = should_deliver_results(c, x, r)
        /\ rsPc' = "called"
        /\ UNCHANGED <<convRound, refineTurns, rsQuestion, rsRefinable>>
        /\ UNCHANGED <<locVars, convVars, normVars, sizeVars, sectVars, mergeVars, actVars>>

\* one extracting turn of a conversation whose caller passes its round number,
\* starting at 1, and adds one after each "refine" answer
RefinementTurn ==
    \E c \in TurnCounts, x \in TurnBundles :
        /\ rsPc \in {"idle", "refine"}
        /\ convRound <= MaxRound
        /\ rsCount' = c
        /\ rsExtraction' = x
        /\ rsRound' = convRound
        /\ rsResult' = should_deliver_results(c, x, convRound)
        /\ IF should_deliver_results(c, x, convRound)
           THEN rsPc' = "deliver" /\ UNCHANGED <<convRound, refineTurns>>
           ELSE rsPc' = "refine" /\ convRound' = convRound + 1
                /\ refineTurns' = refineTurns + 1
        /\ UNCHANGED <<rsQuestion, rsRefinable>>
        /\ UNCHANGED <<locVars, convVars, normVars, sizeVars, sectVars, mergeVars, actVars>>

\* the service keeps no state: the next call or conversation starts afresh
RefReturn ==
    /\ rsPc \in {"called", "deliver", "asked", "listed"}
    /\ rsQuestion' = NoQuestion
    /\ rsRefinable' = <<>>
    /\ rsCount' = 0
    /\ rsExtraction' = NoBundle
    /\ rsRound' = 0
    /\ rsResult' = FALSE
    /\ rsPc' = "idle"
    /\ convRound' = 1
    /\ refineTurns' = 0
    /\ UNCHANGED <<locVars, convVars, normVars, sizeVars, sectVars, mergeVars, actVars>>

\* generate_refinement_question(count, extraction, refinement_round)
GenerateQuestionCall ==
    \E c \in Counts, x \in Bundles, r \in 1..MAX_REFINEMENT_ROUNDS :
        /\ rsPc = "idle"
        /\ rsCount' = c
        /\ rsExtraction' = x
        /\ rsRound' = r
        /\ rsQuestion' = generate_refinement_question(c, x, r)
        /\ rsPc' = "asked"
        /\ UNCHANGED <<rsResult, convRound, refineTurns, rsRefinable>>
        /\ UNCHANGED <<locVars, convVars, normVars, sizeVars, sectVars, mergeVars, actVars>>

\* get_refinable_criteria(extraction)
GetRefinableCall ==
    \E x \in Bundles \cup NullListBundles :
        /\ rsPc = "idle"
        /\ rsExtraction' = x
        /\ rsRefinable' = IF RefinableRaises(x) THEN TypeError
                          ELSE get_refinable_criteria(x)
        /\ rsPc' = "listed"
        /\ UNCHANGED <<rsCount, rsRound, rsResult, convRound, refineTurns, rsQuestion>>
        /\ UNCHANGED <<locVars, convVars, normVars, sizeVars, sectVars, mergeVars, actVars>>

NextRef ==
    ShouldDeliverCall \/ RefinementTurn \/ GenerateQuestionCall \/ GetRefinableCall
    \/ RefReturn

C1_WitnessRefine ==
    /\ rsPc = "called" /\ ~rsResult
    /\ rsCount = REFINEMENT_THRESHOLD + 1 /\ rsRound = MAX_REFINEMENT_ROUNDS - 1

\* C2: should_deliver_results is true for every count and bundle once round >=
\* max_rounds, so a conversation whose round starts at 1 and grows by one per
\* extracting turn gets at most max_rounds - 1 "refine" answers before "deliver".
C2_RoundExhaustionDelivers ==
    /\ (rsPc \in {"called", "deliver", "refine"} /\ rsRound >= MAX_REFINEMENT_ROUNDS)
       => rsResult
    /\ refineTurns <= MAX_REFINEMENT_ROUNDS - 1
    /\ (rsPc = "refine" /\ refineTurns = MAX_REFINEMENT_ROUNDS - 1)
       => \A c \in Counts, x \in Bundles : should_deliver_results(c, x, convRound)

\* C2 witness: two refinement questions, then a delivery forced by the round
\* although the count is above the threshold and a section is still missing
C2_Witness ==
    /\ rsPc = "deliver" /\ refineTurns = MAX_REFINEMENT_ROUNDS - 1
    /\ rsRound = MAX_REFINEMENT_ROUNDS
    /\ rsCount > REFINEMENT_THRESHOLD
    /\ get_missing_criteria(rsExtraction) # <<>>

\* the first section, in the order location, size, financial, legal, whose
\* present flag is false; "none" when every one is present
RECURSIVE FirstMissingFrom(_, _)
FirstMissingFrom(extraction, k) ==
    IF k > Len(REFINEMENT_PRIORITY) THEN "none"
    ELSE IF ~extraction[REFINEMENT_PRIORITY[k]].present THEN REFINEMENT_PRIORITY[k]
    ELSE FirstMissingFrom(extraction, k + 1)

FirstMissing == FirstMissingFrom(rsExtraction, 1)

FirstRefinable ==
    IF get_refinable_criteria(rsExtraction) = <<>> THEN "none"
    ELSE get_refinable_criteria(rsExtraction)[1]

\* the section the question is about, or "generic"
ExpectedCriterion ==
    IF FirstMissing # "none" THEN FirstMissing
    ELSE IF FirstRefinable # "none" THEN FirstRefinable
    ELSE "generic"

\* the text carries the decimal count
MentionsCount(question, count) ==
    \E i \in 1..Len(question) : question[i] = ToString(count)

\* the text is one of the section's questions, or the generic message
IsQuestionOf(question, criterion, count) ==
    IF criterion = "generic"
    THEN Len(question) = 4 /\ question[4] = GenericQuestion(count).question[4]
    ELSE \E kind \in {"with_count", "follow_up"} :
            \A i \in 1..Len(question) :
                /\ Len(question) = Len(REFINEMENT_QUESTIONS[criterion][kind])
                /\ question[i] \in {REFINEMENT_QUESTIONS[criterion][kind][i], ToString(count)}

C19_WitnessFollowUp ==
    /\ rsPc = "asked"
    /\ FirstMissing = "none"
    /\ rsQuestion.criterion = "taille_entreprise"
    /\ ~MentionsCount(rsQuestion.question, rsCount)

\* C19 witness of the third case
C19_WitnessGeneric ==
    /\ rsPc = "asked"
    /\ rsQuestion.criterion = "generic"
    /\ MentionsCount(rsQuestion.question, rsCount)

Reports(criterion) ==
    rsRefinable # TypeError /\ \E i \in 1..Len(rsRefinable) : rsRefinable[i] = criterion

\* the number of entries of a bracket list, none for a null list
Brackets(taille) ==
    IF taille.tranche_effectif = None THEN 0 ELSE Len(taille.tranche_effectif)

\* C20: get_refinable_criteria answers, and reports the location exactly when
\* it is present with a region and neither department nor commune, and the
\* size exactly when it is present with more than 3 brackets
C20_RefinableExactlyWhen ==
    rsPc = "listed" =>
        /\ rsRefinable # TypeError
        /\ Reports("localisation") <=>
                /\ rsExtraction.localisation.present
                /\ Truthy(rsExtraction.localisation.region)
                /\ ~Truthy(rsExtraction.localisation.departement)
                /\ ~Truthy(rsExtraction.localisation.commune)
        /\ Reports("taille_entreprise") <=>
                /\ rsExtraction.taille_entreprise.present
                /\ Brackets(rsExtraction.taille_entreprise) > 3

\* what the code does report, for a bundle it answers on
C20_RefinableAsCoded ==
    (rsPc = "listed" /\ rsRefinable # TypeError) =>
        /\ Reports("localisation") <=>
                /\ rsExtraction.localisation.present
                /\ ~Truthy(rsExtraction.localisation.commune)
                /\ (Truthy(rsExtraction.localisation.region)
                    \/ Truthy(rsExtraction.localisation.departement))
        /\ Reports("taille_entreprise") <=>
                /\ rsExtraction.taille_entreprise.present
                /\ Brackets(rsExtraction.taille_entreprise) > 3

(***************************************************************************)
(* Post-processing of the language model's output                          *)
(***************************************************************************)
SECTIONS ==
    <<"localisation", "activite", "taille_entreprise", "criteres_financiers",
      "criteres_juridiques">>

\* a string or number of a section other than the location, kept whole
Txt(s) == <<s>>

\* a key removed from a section by `del`
Absent == <<"<absent>">>

Activite(pr, libelle, act) ==
    [present |-> pr, libelle_secteur |-> libelle, activite_entreprise |-> act]

TailleSection(pr, tranches, acronyme, expression) ==
    [present |-> pr, tranche_effectif |-> tranches, acronyme |-> acronyme,
     effectif_expression |-> expression]

Financiers(pr, ca) ==
    [present |-> pr, ca_plus_recent |-> ca, resultat_net_plus_recent |-> None,
     rentabilite_plus_recente |-> None]

Juridiques(pr, siege, capital) ==
    [present |-> pr, categorie_juridique |-> None, siege_entreprise |-> siege,
     date_creation_entreprise |-> None, capital |-> capital,
     date_changement_dirigeant |-> None, nombre_etablissements |-> None]

(***************************************************************************)
(* Size matcher (services/size_matcher.py)                                 *)
(***************************************************************************)

\* float('inf'): above every number an expression of the model can hold
Inf == 1000000000

Bracket(label, range_min, range_max) ==
    [label |-> label, range_min |-> range_min, range_max |-> range_max]

INSEE_RANGES ==
    <<Bracket("0 salarie", 0, 0),
      Bracket("1 ou 2 salaries", 1, 2),
      Bracket("3 a 5 salaries", 3, 5),
      Bracket("6 a 9 salaries", 6, 9),
      Bracket("10 a 19 salaries", 10, 19),
      Bracket("20 a 49 salaries", 20, 49),
      Bracket("50 a 99 salaries", 50, 99),
      Bracket("100 a 199 salaries", 100, 199),
      Bracket("200 a 249 salaries", 200, 249),
      Bracket("250 a 499 salaries", 250, 499),
      Bracket("500 a 999 salaries", 500, 999),
      Bracket("1 000 a 1 999 salaries", 1000, 1999),
      Bracket("2 000 a 4 999 salaries", 2000, 4999),
      Bracket("5 000 a 9 999 salaries", 5000, 9999),
      Bracket("10 000 salaries et plus", 10000, Inf)>>

AcrMIC == <<"M", "I", "C">>
AcrTPE == <<"T", "P", "E">>
AcrPME == <<"P", "M", "E">>
AcrETI == <<"E", "T", "I">>
AcrGE == <<"G", "E">>

\* the keys of ACRONYM_RANGES and ACRONYM_BOUNDARIES, in dict order
ACRONYM_KEYS == <<AcrMIC, AcrTPE, AcrPME, AcrETI, AcrGE>>

ACRONYM_RANGES ==
    [a \in {AcrMIC, AcrTPE, AcrPME, AcrETI, AcrGE} |->
        CASE a \in {AcrMIC, AcrTPE} ->
                <<"0 salarie", "1 ou 2 salaries", "3 a 5 salaries", "6 a 9 salaries">>
          [] a = AcrPME ->
                <<"10 a 19 salaries", "20 a 49 salaries", "50 a 99 salaries",
                  "100 a 199 salaries", "200 a 249 salaries">>
          [] a = AcrETI ->
                <<"250 a 499 salaries", "500 a 999 salaries", "1 000 a 1 999 salaries",
                  "2 000 a 4 999 salaries">>
          [] OTHER -> <<"5 000 a 9 999 salaries", "10 000 salaries et plus">>]

ACRONYM_BOUNDARIES ==
    [a \in {AcrMIC, AcrTPE, AcrPME, AcrETI, AcrGE} |->
        CASE a \in {AcrMIC, AcrTPE} -> <<0, 9>>
          [] a = AcrPME -> <<10, 249>>
          [] a = AcrETI -> <<250, 4999>>
          [] OTHER -> <<5000, Inf>>]

\* SizeMatchResult; max_employees is <<>> for None
SizeMatchResult(tranches, acronyme, original_expression, min_employees, max_employees) ==
    [tranches |-> tranches, acronyme |-> acronyme,
     original_expression |-> original_expression,
     min_employees |-> min_employees, max_employees |-> max_employees]

\* the None that parse_size_expression returns
NoSizeMatch == SizeMatchResult(<<>>, None, None, 0, <<>>)

LabelsOf(ranges) == [i \in 1..Len(ranges) |-> ranges[i].label]

_get_ranges_for_bounds(min_val, max_val) ==
    LabelsOf(SelectSeq(INSEE_RANGES,
                       LAMBDA r : r.range_max >= min_val /\ r.range_max <= max_val))

BoundariesAre(i, min_val, max_val) ==
    ACRONYM_BOUNDARIES[ACRONYM_KEYS[i]] = <<min_val, max_val>>

\* a mutant that never back-fills the acronym
_detect_acronym_none(min_val, max_val) == None

\* the detection that returns the last keyword with these bounds
_detect_acronym_last(min_val, max_val) ==
    IF \E i \in 1..Len(ACRONYM_KEYS) : BoundariesAre(i, min_val, max_val)
    THEN ACRONYM_KEYS[CHOOSE i \in 1..Len(ACRONYM_KEYS) :
            /\ BoundariesAre(i, min_val, max_val)
            /\ \A j \in (i + 1)..Len(ACRONYM_KEYS) : ~BoundariesAre(j, min_val, max_val)]
    ELSE None

_detect_acronym(min_val, max_val) ==
    IF \E i \in 1..Len(ACRONYM_KEYS) : BoundariesAre(i, min_val, max_val)
    THEN ACRONYM_KEYS[CHOOSE i \in 1..Len(ACRONYM_KEYS) :
            /\ BoundariesAre(i, min_val, max_val)
            /\ \A j \in 1..(i - 1) : ~BoundariesAre(j, min_val, max_val)]
    ELSE None

\* int(max_val) if max_val != float('inf') else None
MaxEmployees(max_val) == IF max_val # Inf THEN <<max_val>> ELSE <<>>

\* the character classes of the patterns
IsDigit(c) == c \in {"0", "1", "2", "3", "4", "5", "6", "7", "8", "9"}
IsOpChar(c) == c \in {"<", ">", "="}
IsBoundChar(c) == IsOpChar(c) \/ IsDigit(c) \/ IsSpace(c)

\* the character at position i, "" past the end
At(s, i) == IF i \in 1..Len(s) THEN s[i] ELSE ""

\* length of the longest run of \d, [<>=], \s, [<>=\d\s] starting at position i
RECURSIVE DigitRun(_, _)
DigitRun(s, i) == IF IsDigit(At(s, i)) THEN 1 + DigitRun(s, i + 1) ELSE 0

RECURSIVE OpRun(_, _)
OpRun(s, i) == IF IsOpChar(At(s, i)) THEN 1 + OpRun(s, i + 1) ELSE 0

RECURSIVE SpaceRun(_, _)
SpaceRun(s, i) == IF IsSpace(At(s, i)) THEN 1 + SpaceRun(s, i + 1) ELSE 0

RECURSIVE BoundRun(_, _)
BoundRun(s, i) == IF IsBoundChar(At(s, i)) THEN 1 + BoundRun(s, i + 1) ELSE 0

DigitValue(c) ==
    CASE c = "0" -> 0 [] c = "1" -> 1 [] c = "2" -> 2 [] c = "3" -> 3
      [] c = "4" -> 4 [] c = "5" -> 5 [] c = "6" -> 6 [] c = "7" -> 7
      [] c = "8" -> 8 [] OTHER -> 9

\* int(digits)
RECURSIVE IntOf(_)
IntOf(digits) ==
    IF digits = <<>> THEN 0
    ELSE IntOf(SubSeq(digits, 1, Len(digits) - 1)) * 10 + DigitValue(digits[Len(digits)])

HasChar(s, c) == \E i \in 1..Len(s) : s[i] = c

NoOpMatch == [matched |-> FALSE, op |-> <<>>, val |-> 0]

OpMatchAt(s, o, sp) ==
    IF o >= 1 /\ DigitRun(s, o + sp + 1) >= 1
    THEN [matched |-> TRUE, op |-> SubSeq(s, 1, o),
          val |-> IntOf(SubSeq(s, o + sp + 1, o + sp + DigitRun(s, o + sp + 1)))]
    ELSE NoOpMatch

\* re.match(r'([<>=]+)\s*(\d+)', s): the operator and the number at the start
OpMatch(s) == OpMatchAt(s, OpRun(s, 1), SpaceRun(s, OpRun(s, 1) + 1))

\* length of the connector (?:AND|ET|&) at position i, 0 if there is none
ConnectorLen(s, i) ==
    IF At(s, i) = "A" /\ At(s, i + 1) = "N" /\ At(s, i + 2) = "D" THEN 3
    ELSE IF At(s, i) = "E" /\ At(s, i + 1) = "T" THEN 2
    ELSE IF At(s, i) = "&" THEN 1
    ELSE 0

\* where the right group of the combined pattern starts
RightStart(expr) == BoundRun(expr, 1) + 1 + ConnectorLen(expr, BoundRun(expr, 1) + 1)

\* re.match(r'([<>=\d\s]+)\s*(?:AND|ET|&)\s*([<>=\d\s]+)', expr)
AndMatches(expr) ==
    /\ BoundRun(expr, 1) >= 1
    /\ ConnectorLen(expr, BoundRun(expr, 1) + 1) >= 1
    /\ BoundRun(expr, RightStart(expr)) >= 1

\* left.strip() and right.strip() of its groups
AndLeft(expr) == Strip(SubSeq(expr, 1, BoundRun(expr, 1)))

AndRight(expr) ==
    Strip(SubSeq(expr, RightStart(expr),
                 RightStart(expr) + BoundRun(expr, RightStart(expr)) - 1))

\* one part of a combined expression applied to the bounds so far
ApplyPart(bounds, m) ==
    IF ~m.matched THEN bounds
    ELSE IF HasChar(m.op, ">")
    THEN <<IF HasChar(m.op, "=") THEN m.val ELSE m.val + 1, bounds[2]>>
    ELSE IF HasChar(m.op, "<")
    THEN <<bounds[1], IF HasChar(m.op, "=") THEN m.val ELSE m.val - 1>>
    ELSE bounds

AndBounds(expr) ==
    ApplyPart(ApplyPart(<<0, Inf>>, OpMatch(AndLeft(expr))), OpMatch(AndRight(expr)))

\* the result built from bounds, None when no bracket falls within them
BoundsResult(expression, min_val, max_val) ==
    IF _get_ranges_for_bounds(min_val, max_val) # <<>>
    THEN SizeMatchResult(_get_ranges_for_bounds(min_val, max_val),
                         _detect_acronym(min_val, max_val), expression,
                         min_val, MaxEmployees(max_val))
    ELSE NoSizeMatch

IsSeparator(c) == c \in {"-", "A'", "A", "a'", "a"}

\* re.match(r'(\d+)\s*[-àa]\s*(\d+)', expr, re.IGNORECASE): position of the
\* separator, 0 if the pattern does not match
SeparatorAt(expr) ==
    IF /\ DigitRun(expr, 1) >= 1
       /\ IsSeparator(At(expr, DigitRun(expr, 1) + SpaceRun(expr, DigitRun(expr, 1) + 1) + 1))
    THEN DigitRun(expr, 1) + SpaceRun(expr, DigitRun(expr, 1) + 1) + 1
    ELSE 0

RangeMatches(expr) ==
    /\ SeparatorAt(expr) >= 1
    /\ DigitRun(expr, SeparatorAt(expr) + 1 + SpaceRun(expr, SeparatorAt(expr) + 1)) >= 1

RangeMin(expr) == IntOf(SubSeq(expr, 1, DigitRun(expr, 1)))

SecondNumber(expr, start) == IntOf(SubSeq(expr, start, start + DigitRun(expr, start) - 1))

RangeMax(expr) ==
    SecondNumber(expr, SeparatorAt(expr) + 1 + SpaceRun(expr, SeparatorAt(expr) + 1))

\* the bounds of a comparison
CompBounds(m) ==
    IF HasChar(m.op, "<")
    THEN <<0, IF HasChar(m.op, "=") THEN m.val ELSE m.val - 1>>
    ELSE <<IF HasChar(m.op, "=") THEN m.val ELSE m.val + 1, Inf>>

\* re.match(r'^(\d+)$', expr) and what follows it
ExactResult(expression, expr) ==
    IF expr # <<>> /\ DigitRun(expr, 1) = Len(expr)
       /\ _get_ranges_for_bounds(IntOf(expr), IntOf(expr)) # <<>>
    THEN SizeMatchResult(_get_ranges_for_bounds(IntOf(expr), IntOf(expr)), None,
                         expression, IntOf(expr), <<IntOf(expr)>>)
    ELSE NoSizeMatch

\* the comparison form and, when it yields no bracket, the exact form
CompResult(expression, expr, m) ==
    IF ~m.matched THEN ExactResult(expression, expr)
    ELSE IF ~HasChar(m.op, "<") /\ ~HasChar(m.op, ">") THEN NoSizeMatch
    ELSE IF BoundsResult(expression, CompBounds(m)[1], CompBounds(m)[2]) # NoSizeMatch
    THEN BoundsResult(expression, CompBounds(m)[1], CompBounds(m)[2])
    ELSE ExactResult(expression, expr)

\* the range form, then the forms after it
RangeResult(expression, expr) ==
    IF /\ RangeMatches(expr)
       /\ BoundsResult(expression, RangeMin(expr), RangeMax(expr)) # NoSizeMatch
    THEN BoundsResult(expression, RangeMin(expr), RangeMax(expr))
    ELSE CompResult(expression, expr, OpMatch(expr))

\* the combined form, then the forms after it
CombinedResult(expression, expr) ==
    IF /\ AndMatches(expr)
       /\ BoundsResult(expression, AndBounds(expr)[1], AndBounds(expr)[2]) # NoSizeMatch
    THEN BoundsResult(expression, AndBounds(expr)[1], AndBounds(expr)[2])
    ELSE RangeResult(expression, expr)

\* the acronym form, then the forms after it; expr is expression.strip().upper()
ParseUpper(expression, expr) ==
    IF expr \in DOMAIN ACRONYM_RANGES
    THEN SizeMatchResult(ACRONYM_RANGES[expr], expr, expression,
                         ACRONYM_BOUNDARIES[expr][1],
                         MaxEmployees(ACRONYM_BOUNDARIES[expr][2]))
    ELSE CombinedResult(expression, expr)

parse_size_expression(expression) ==
    IF ~Truthy(expression) THEN NoSizeMatch
    ELSE ParseUpper(expression, UpperAll(Strip(expression)))

\* taille.get("effectif_expression") or taille.get("acronyme")
SizeExpression(taille) ==
    IF Truthy(taille.effectif_expression) /\ taille.effectif_expression # Absent
    THEN taille.effectif_expression
    ELSE taille.acronyme

\* the size section once the parsed expression is written into it
WithSize(taille, result) ==
    [taille EXCEPT !.tranche_effectif = result.tranches,
                   !.acronyme = result.acronyme,
                   !.effectif_expression = Absent]

\* the correction text: the expression and the number of brackets
SizeCorrection(result) ==
    IF UpperAll(result.original_expression) \notin DOMAIN ACRONYM_RANGES
    THEN [expression |-> result.original_expression, tranches |-> Len(result.tranches)]
    ELSE None

\* a mutant that writes the result into the section whether or not there is one
Transformed_always(extraction_result, result) ==
    [result |-> [extraction_result EXCEPT !.taille_entreprise = WithSize(@, result)],
     correction |-> None]

Transformed(extraction_result, result) ==
    IF result # NoSizeMatch
    THEN [result |-> [extraction_result EXCEPT !.taille_entreprise = WithSize(@, result)],
          correction |-> SizeCorrection(result)]
    ELSE [result |-> extraction_result, correction |-> None]

transform_size_field(extraction_result) ==
    IF ~extraction_result.taille_entreprise.present
    THEN [result |-> extraction_result, correction |-> None]
    ELSE IF ~Truthy(SizeExpression(extraction_result.taille_entreprise))
    THEN [result |-> extraction_result, correction |-> None]
    ELSE Transformed(extraction_result,
            parse_size_expression(SizeExpression(extraction_result.taille_entreprise)))

\* SectorMatcher.match(libelle, threshold=0.5): a sector of the reference list,
\* or nothing
SectorMatches == {None, Txt("Restauration")}

\* the libelle_secteur rule of _normalize_extraction_result
NormalizeActivite(activite, matched) ==
    IF activite.activite_entreprise # None /\ activite.libelle_secteur # None
    THEN [activite EXCEPT !.libelle_secteur = None]
    ELSE IF activite.libelle_secteur # None /\ Truthy(matched)
    THEN [activite EXCEPT !.libelle_secteur = matched]
    ELSE activite

\* the criteres_juridiques rule of _normalize_extraction_result
NormalizeJuridiques(criteres_juridiques) ==
    IF criteres_juridiques.present = FALSE
    THEN [criteres_juridiques EXCEPT
            !.categorie_juridique = None, !.siege_entreprise = None,
            !.date_creation_entreprise = None, !.capital = None,
            !.date_changement_dirigeant = None, !.nombre_etablissements = None]
    ELSE criteres_juridiques

_normalize_extraction_result(result, matched) ==
    [result EXCEPT !.activite = NormalizeActivite(@, matched),
                   !.criteres_juridiques = NormalizeJuridiques(@)]

\* the post-processing of AgentService.process_message: location matching,
\* then the size transformation
AgentPostProcess(extraction, init, C, D, R) ==
    transform_size_field(match_locations(extraction, init, C, D, R).result).result

\* what the language model may write, section by section: a present section,
\* an absent section with null fields, an absent section with fields left set
RawLocalisations ==
    {Localisation(TRUE, TRUE, None, Lyan, None, None),
     Localisation(TRUE, TRUE, None, None, None, BretagneLower),
     Localisation(TRUE, FALSE, None, None, None, None),
     Localisation(TRUE, FALSE, None, Paris, None, None)}

RawActivites ==
    {Activite(TRUE, None, Txt("restauration")),
     Activite(TRUE, Txt("restaurant"), None),
     Activite(TRUE, Txt("restaurant"), Txt("restauration")),
     Activite(FALSE, None, None),
     Activite(FALSE, Txt("restaurant"), None)}

RawTailles ==
    {TailleSection(TRUE, None, None, <<"p", "m", "e">>),
     TailleSection(TRUE, None, AcrGE, None),
     TailleSection(TRUE, None, None, <<"b", "e", "a", "u", "c", "o", "u", "p">>),
     TailleSection(FALSE, None, None, None),
     TailleSection(FALSE, None, AcrPME, None)}

RawFinanciers ==
    {Financiers(TRUE, Txt("1000000")), Financiers(FALSE, None),
     Financiers(FALSE, Txt("1000000"))}

RawJuridiques ==
    {Juridiques(TRUE, Txt("oui"), None), Juridiques(FALSE, None, None),
     Juridiques(FALSE, Txt("oui"), Txt("1000"))}

Extraction(lo, ac, ta, fi, ju) ==
    [localisation |-> lo, activite |-> ac, taille_entreprise |-> ta,
     criteres_financiers |-> fi, criteres_juridiques |-> ju]

RawExtractions ==
    {Extraction(lo, ac, ta, fi, ju) :
        lo \in RawLocalisations, ac \in RawActivites, ta \in RawTailles,
        fi \in RawFinanciers, ju \in RawJuridiques}

\* the bundle with every section absent and every field null
AllAbsent ==
    Extraction(Localisation(TRUE, FALSE, None, None, None, None),
               Activite(FALSE, None, None),
               TailleSection(FALSE, None, None, None),
               Financiers(FALSE, None), Juridiques(FALSE, None, None))

InitNorm ==
    /\ normIn = AllAbsent
    /\ normOut = AllAbsent
    /\ normPc = "idle"

\* the extraction pipeline: json.loads of the model's answer, then
\* _normalize_extraction_result
NormalizeCall ==
    \E raw \in RawExtractions, matched \in SectorMatches :
        /\ normPc = "idle"
        /\ normIn' = raw
        /\ normOut' = _normalize_extraction_result(raw, matched)
        /\ normPc' = "normalized"
        /\ UNCHANGED <<locVars, refVars, convVars, sizeVars, sectVars, mergeVars, actVars>>

\* the agent: json.loads of the model's answer, then match_locations and
\* transform_size_field
AgentPostProcessCall ==
    \E raw \in RawExtractions :
        /\ normPc = "idle"
        /\ normIn' = raw
        /\ normOut' = AgentPostProcess(raw, initialized, communes, departements, regions)
        /\ normPc' = "processed"
        /\ UNCHANGED <<locVars, refVars, convVars, sizeVars, sectVars, mergeVars, actVars>>

NormReturn ==
    /\ normPc # "idle"
    /\ normIn' = AllAbsent
    /\ normOut' = AllAbsent
    /\ normPc' = "idle"
    /\ UNCHANGED <<locVars, refVars, convVars, sizeVars, sectVars, mergeVars, actVars>>

\* a sub-field that is null, or whose key is absent
IsNull(v) == v = None \/ v = Absent

SubFieldsNull(section) ==
    \A f \in DOMAIN section \ {"present", "exists"} : IsNull(section[f])

AbsentSectionsNull(extraction) ==
    \A k \in 1..Len(SECTIONS) :
        ~extraction[SECTIONS[k]].present => SubFieldsNull(extraction[SECTIONS[k]])

\* C5: after the post-processing of the language model's raw output, every one
\* of the five sections with present = false has all of its sub-fields null or
\* absent.
C5_AbsentSectionsAreNull ==
    normPc # "idle" => AbsentSectionsNull(normOut)

(***************************************************************************)
(* Inputs and operations of the size matcher                               *)
(***************************************************************************)

DigitChar(d) == <<"0", "1", "2", "3", "4", "5", "6", "7", "8", "9">>[d + 1]

\* str(n)
RECURSIVE Digits(_)
Digits(n) ==
    IF n < 10 THEN <<DigitChar(n)>> ELSE Digits(n \div 10) \o <<DigitChar(n % 10)>>

OpLt == <<"<">>
OpLe == <<"<", "=">>
OpGt == <<">">>
OpGe == <<">", "=">>

\* the numbers the expressions hold
Nums == {0, 9, 10, 49, 50, 60, 249, 250, 4999, 5000}
CombNums == {0, 9, 10, 50, 60, 249}

LowerLetter(c) ==
    CASE c = "M" -> "m" [] c = "I" -> "i" [] c = "C" -> "c" [] c = "T" -> "t"
      [] c = "P" -> "p" [] c = "E" -> "e" [] c = "G" -> "g" [] OTHER -> c

\* every way of writing a keyword in upper and lower case letters
CaseVariants(w) ==
    {v \in [1..Len(w) -> {w[i] : i \in 1..Len(w)} \cup {LowerLetter(w[i]) : i \in 1..Len(w)}] :
        \A i \in 1..Len(w) : v[i] \in {w[i], LowerLetter(w[i])}}

\* an expression with the form it is written in, the keyword of an acronym
\* form, and the bounds [lo, hi] a numeric form states (hi = Inf: no maximum)
SizeInput(form, text, key, lo, hi) ==
    [form |-> form, text |-> text, key |-> key, lo |-> lo, hi |-> hi]

AcronymInputs ==
    {SizeInput("acronym", v[2], v[1], ACRONYM_BOUNDARIES[v[1]][1], ACRONYM_BOUNDARIES[v[1]][2]) :
        v \in UNION {{<<a, t>> : t \in CaseVariants(a)} : a \in DOMAIN ACRONYM_RANGES}}

Spacings == {<<>>, <<" ">>}

LowerComparisons ==
    {SizeInput("comparison", op \o sp \o Digits(n), None,
               IF op = OpGt THEN n + 1 ELSE n, Inf) :
        op \in {OpGt, OpGe}, sp \in Spacings, n \in Nums}

UpperComparisons ==
    {SizeInput("comparison", op \o sp \o Digits(n), None,
               0, IF op = OpLt THEN n - 1 ELSE n) :
        op \in {OpLt, OpLe}, sp \in Spacings, n \in Nums}

Separators == {<<"-">>, <<" ", "-", " ">>, <<" ", "a'", " ">>, <<" ", "a", " ">>}

RangeInputs ==
    {SizeInput("range", Digits(a) \o sep \o Digits(b), None, a, b) :
        a \in Nums, b \in Nums, sep \in Separators}

Connectors ==
    {<<" ", "A", "N", "D", " ">>, <<" ", "a", "n", "d", " ">>,
     <<" ", "E", "T", " ">>, <<" ", "&", " ">>}

LowerFirst ==
    {SizeInput("combined", lop \o Digits(n) \o conn \o uop \o Digits(m), None,
               IF lop = OpGt THEN n + 1 ELSE n, IF uop = OpLt THEN m - 1 ELSE m) :
        lop \in {OpGt, OpGe}, n \in CombNums, conn \in Connectors,
        uop \in {OpLt, OpLe}, m \in CombNums}

UpperFirst ==
    {SizeInput("combined", uop \o Digits(m) \o <<" ", "A", "N", "D", " ">> \o lop \o Digits(n),
               None, IF lop = OpGt THEN n + 1 ELSE n, IF uop = OpLt THEN m - 1 ELSE m) :
        lop \in {OpGt, OpGe}, n \in CombNums, uop \in {OpLt, OpLe}, m \in CombNums}

IntegerInputs ==
    {SizeInput("integer", Digits(n), None, n, n) : n \in Nums \cup {5, 19, 10000}}

\* texts that are none of the five forms
OtherTexts ==
    {<<">", "1", "0", " ", "p", "e", "o", "p", "l", "e">>,
     <<"1", "0", "-", "5", "0", "a", "b", "c">>,
     <<"1", "0", " ", "A", "N", "D", " ", "<", "5", "0">>,
     <<"5", " ", "A", "N", "D", " ", "6">>,
     <<"<", "1", "0", " ", "A", "N", "D">>,
     <<"5", "0", " ", "s", "a", "l", "a", "r", "i", "e", "s">>,
     <<"=", "5", "0">>,
     <<"a", "b", "c">>,
     <<"1", " ", "0">>,
     <<" ">>}

OtherInputs == {SizeInput("other", t, None, 0, 0) : t \in OtherTexts}

\* the numeric expression of the bounds of an acronym keyword:
\* ">=lo AND <=hi", or ">=lo" when there is no upper bound
BoundsExpression(lo, hi) ==
    IF hi = Inf THEN OpGe \o Digits(lo)
    ELSE OpGe \o Digits(lo) \o <<" ", "A", "N", "D", " ">> \o OpLe \o Digits(hi)

AcronymBoundInputs ==
    {SizeInput("bounds",
               BoundsExpression(ACRONYM_BOUNDARIES[a][1], ACRONYM_BOUNDARIES[a][2]),
               a, ACRONYM_BOUNDARIES[a][1], ACRONYM_BOUNDARIES[a][2]) :
        a \in DOMAIN ACRONYM_BOUNDARIES}

SizeInputs ==
    AcronymInputs \cup LowerComparisons \cup UpperComparisons \cup RangeInputs
    \cup LowerFirst \cup UpperFirst \cup IntegerInputs \cup OtherInputs
    \cup AcronymBoundInputs

\* the size section a caller hands over: the expression in the
\* effectif_expression key or in the legacy acronyme key, the section present
\* or not, a bracket list already there or not
SizeSections(text) ==
    {TailleSection(TRUE, None, None, text),
     TailleSection(TRUE, None, text, None),
     TailleSection(TRUE, <<"50 a 99 salaries">>, None, text),
     TailleSection(FALSE, None, None, text)}

NoSizeInput == SizeInput("other", <<>>, None, 0, 0)

InitSize ==
    /\ sizeIn = NoSizeInput
    /\ sizeResult = NoSizeMatch
    /\ sizeExtraction = AllAbsent
    /\ sizeOut = AllAbsent
    /\ sizeCorrection = None
    /\ sizePc = "idle"

\* parse_size_expression(expression)
ParseCall ==
    /\ sizePc = "idle"
    /\ \E input \in SizeInputs :
        /\ sizeIn' = input
        /\ sizeResult' = parse_size_expression(input.text)
    /\ sizePc' = "parsed"
    /\ UNCHANGED <<sizeExtraction, sizeOut, sizeCorrection>>
    /\ UNCHANGED <<locVars, refVars, convVars, normVars, sectVars, mergeVars, actVars>>

\* transform_size_field(extraction_result)
SizeTransformCall ==
    /\ sizePc = "idle"
    /\ \E input \in SizeInputs :
        \E taille \in SizeSections(input.text) :
            /\ sizeIn' = input
            /\ sizeResult' = parse_size_expression(input.text)
            /\ sizeExtraction' = [AllAbsent EXCEPT !.taille_entreprise = taille]
            /\ sizeOut' =
                transform_size_field([AllAbsent EXCEPT !.taille_entreprise = taille]).result
            /\ sizeCorrection' =
                transform_size_field([AllAbsent EXCEPT !.taille_entreprise = taille]).correction
    /\ sizePc' = "transformed"
    /\ UNCHANGED <<locVars, refVars, convVars, normVars, sectVars, mergeVars, actVars>>

\* the caller takes the result
SizeReturn ==
    /\ sizePc # "idle"
    /\ sizeIn' = NoSizeInput
    /\ sizeResult' = NoSizeMatch
    /\ sizeExtraction' = AllAbsent
    /\ sizeOut' = AllAbsent
    /\ sizeCorrection' = None
    /\ sizePc' = "idle"
    /\ UNCHANGED <<locVars, refVars, convVars, normVars, sectVars, mergeVars, actVars>>

(***************************************************************************)
(* Properties of the size matcher                                          *)
(***************************************************************************)
PmeBounds == OpGe \o Digits(10) \o <<" ", "A", "N", "D", " ">> \o OpLe \o Digits(249)

\* C12: parse_size_expression("PME") and parse_size_expression(">=10 AND <=249")
\* return the same bracket list, the five brackets of PME, and the same
\* acronym, PME
C12_PmeAndItsBoundsAgree ==
    (sizePc = "parsed" /\ sizeIn.text \in {AcrPME, PmeBounds}) =>
        /\ sizeResult.tranches = ACRONYM_RANGES[AcrPME]
        /\ sizeResult.acronyme = AcrPME

C12_Witness ==
    /\ sizePc = "parsed"
    /\ sizeIn.text = PmeBounds
    /\ sizeResult.acronyme = AcrPME
    /\ Len(sizeResult.tranches) = 5

\* C27: for every acronym keyword K (MIC, TPE, PME, ETI, GE) with bounds
\* [lo, hi], parsing ">=lo AND <=hi" (">=lo" when hi is unbounded) returns the
\* bracket list of parse_size_expression(K) and the acronym K
C27_BoundsParseAsKeyword ==
    (sizePc = "parsed" /\ sizeIn.form = "bounds") =>
        /\ sizeResult.tranches = parse_size_expression(sizeIn.key).tranches
        /\ sizeResult.acronyme = sizeIn.key

\* the same with the acronym the code back-fills: MIC and TPE have the same
\* bounds, and their expression is given the first of the two, MIC
C27_BoundsParseAsFirstKeyword ==
    (sizePc = "parsed" /\ sizeIn.form = "bounds") =>
        /\ sizeResult.tranches = parse_size_expression(sizeIn.key).tranches
        /\ parse_size_expression(sizeIn.key).acronyme = sizeIn.key
        /\ sizeResult.acronyme = IF sizeIn.key = AcrTPE THEN AcrMIC ELSE sizeIn.key

C27_Witness ==
    /\ sizePc = "parsed"
    /\ sizeIn.form = "bounds"
    /\ sizeIn.key = AcrETI
    /\ sizeResult.acronyme = AcrETI
    /\ Len(sizeResult.tranches) = 4

C27_WitnessTpe ==
    /\ sizePc = "parsed"
    /\ sizeIn.form = "bounds"
    /\ sizeIn.key = AcrTPE
    /\ sizeResult.acronyme = AcrMIC
    /\ Len(sizeResult.tranches) = 4

\* the labels of the canonical brackets number a to b
BracketLabels(a, b) == [i \in 1..(b - a + 1) |-> INSEE_RANGES[a + i - 1].label]

\* the fixed bracket list of a keyword: 0..9, 10..249, 250..4999, from 5000
FixedBrackets(key) ==
    CASE key \in {AcrMIC, AcrTPE} -> BracketLabels(1, 4)
      [] key = AcrPME -> BracketLabels(5, 9)
      [] key = AcrETI -> BracketLabels(10, 13)
      [] OTHER -> BracketLabels(14, 15)

\* C13: for an acronym keyword in any letter case, transform_size_field on a
\* present size section writes the keyword's fixed bracket list into
\* tranche_effectif and the keyword into acronyme
C13_AcronymAnyCase ==
    (/\ sizePc = "transformed"
     /\ sizeIn.form = "acronym"
     /\ sizeExtraction.taille_entreprise.present) =>
        /\ sizeOut.taille_entreprise.tranche_effectif = FixedBrackets(sizeIn.key)
        /\ sizeOut.taille_entreprise.acronyme = sizeIn.key

C13_Witness ==
    /\ sizePc = "transformed"
    /\ sizeIn.form = "acronym"
    /\ sizeIn.text = <<"e", "T", "i">>
    /\ sizeExtraction.taille_entreprise.present
    /\ sizeOut.taille_entreprise.acronyme = AcrETI
    /\ Len(sizeOut.taille_entreprise.tranche_effectif) = 4

\* the canonical brackets whose upper bound lies within [lo, hi], in catalog order
CanonicalWithin(lo, hi) ==
    LabelsOf(SelectSeq(INSEE_RANGES, LAMBDA r : lo <= r.range_max /\ r.range_max <= hi))

IsAcronymBound(lo, hi) == \E a \in DOMAIN ACRONYM_BOUNDARIES : ACRONYM_BOUNDARIES[a] = <<lo, hi>>

\* C14: a combined, range or comparison expression that states the bounds
\* [lo, hi] yields exactly the canonical brackets whose upper bound lies within
\* [lo, hi], and an acronym exactly when <<lo, hi>> is the bound pair of one
C14_NumericFormsSelectWithinBounds ==
    (sizePc = "parsed" /\ sizeIn.form \in {"combined", "range", "comparison"}) =>
        /\ sizeResult.tranches = CanonicalWithin(sizeIn.lo, sizeIn.hi)
        /\ (sizeResult.tranches # <<>> /\ IsAcronymBound(sizeIn.lo, sizeIn.hi)) =>
                /\ sizeResult.acronyme \in DOMAIN ACRONYM_BOUNDARIES
                /\ ACRONYM_BOUNDARIES[sizeResult.acronyme] = <<sizeIn.lo, sizeIn.hi>>
        /\ ~IsAcronymBound(sizeIn.lo, sizeIn.hi) => sizeResult.acronyme = None

\* the bracket that contains n
ContainingBracket(n) ==
    LabelsOf(SelectSeq(INSEE_RANGES, LAMBDA r : r.range_min <= n /\ n <= r.range_max))

\* C15: a bare integer n yields min_employees = max_employees = n and the
\* bracket that contains n
C15_BareIntegerBracket ==
    (sizePc = "parsed" /\ sizeIn.form = "integer") =>
        /\ sizeResult.min_employees = sizeIn.lo
        /\ sizeResult.max_employees = <<sizeIn.lo>>
        /\ sizeResult.tranches = ContainingBracket(sizeIn.lo)

\* C16: an input that is not, as a whole, one of the five forms yields none
C16_OtherInputsYieldNone ==
    (sizePc = "parsed" /\ sizeIn.form = "other") => sizeResult = NoSizeMatch

\* C17: when the expression of a present size section does not parse,
\* transform_size_field returns the bundle unchanged and no correction; the
\* bundle differs from the one given only when the parse succeeded
C17_ParseFailureLeavesSection ==
    (sizePc = "transformed" /\ sizeExtraction.taille_entreprise.present) =>
        /\ sizeResult = NoSizeMatch => (sizeOut = sizeExtraction /\ sizeCorrection = None)
        /\ sizeOut # sizeExtraction => sizeResult # NoSizeMatch

C17_Witness ==
    /\ sizePc = "transformed"
    /\ sizeExtraction.taille_entreprise.present
    /\ sizeIn.text = <<"5", "0", " ", "s", "a", "l", "a", "r", "i", "e", "s">>
    /\ sizeResult = NoSizeMatch
    /\ sizeOut.taille_entreprise.effectif_expression = sizeIn.text
    /\ sizeOut.taille_entreprise.tranche_effectif = <<"50 a 99 salaries">>

(***************************************************************************)
(* Sector matcher (sector_matcher.py)                                      *)
(***************************************************************************)

\* str.lower(): the case goes, the accent stays
LowerChar(c) ==
    CASE c \in {"o^", "e^"} -> c [] c = "E^" -> "e^" [] OTHER -> FoldChar(c)

LowerAll(s) == [i \in 1..Len(s) |-> LowerChar(s[i])]

\* " ".join(text.split()) on a stripped text
RECURSIVE CollapseSpaces(_)
CollapseSpaces(s) ==
    IF Len(s) < 2 THEN s
    ELSE IF IsSpace(s[1]) /\ IsSpace(s[2]) THEN CollapseSpaces(Tail(s))
    ELSE <<s[1]>> \o CollapseSpaces(Tail(s))

\* the quote and dash replacements leave the letters of the model as they are
normalize_for_comparison(text) ==
    IF ~Truthy(text) THEN <<>> ELSE CollapseSpaces(Strip(FoldAll(text)))

\* p in r
IsSubstring(p, r) ==
    \E i \in 0..(Len(r) - Len(p)) : SubSeq(r, i + 1, i + Len(p)) = p

\* text.split(): the words between runs of spaces
RECURSIVE SplitWordsFrom(_, _, _)
SplitWordsFrom(s, word, acc) ==
    IF s = <<>> THEN (IF word = <<>> THEN acc ELSE acc \cup {word})
    ELSE IF IsSpace(Head(s))
    THEN SplitWordsFrom(Tail(s), <<>>, IF word = <<>> THEN acc ELSE acc \cup {word})
    ELSE SplitWordsFrom(Tail(s), Append(word, Head(s)), acc)

stop_words ==
    {<<"d", "e">>,
     <<"d", "u">>,
     <<"d", "e", "s">>,
     <<"l", "e">>,
     <<"l", "a">>,
     <<"l", "e", "s">>,
     <<"e", "t">>,
     <<"e", "n">>,
     <<"a">>,
     <<"a", "u">>,
     <<"a", "u", "x">>,
     <<"d">>,
     <<"l">>,
     <<"n">>,
     <<"c">>,
     <<"q", "u">>,
     <<"s", "u", "r">>,
     <<"p", "o", "u", "r">>,
     <<"p", "a", "r">>,
     <<"a", "v", "e", "c">>,
     <<"s", "a", "n", "s">>,
     <<"a", "u", "t", "r", "e", "s">>,
     <<"a", "u", "t", "r", "e">>,
     <<"n", "o", "n">>,
     <<"h", "o", "r", "s">>,
     <<"e", "x", "c", "e", "p", "t">>,
     <<"e", "x", "c", "e", "p", "t", "i", "o", "n">>,
     <<"a", "c", "t", "i", "v", "i", "t", "e", "s">>,
     <<"a", "c", "t", "i", "v", "i", "t", "e">>,
     <<"s", "e", "r", "v", "i", "c", "e", "s">>,
     <<"s", "e", "r", "v", "i", "c", "e">>}

get_significant_words(text) == SplitWordsFrom(LowerAll(text), <<>>, {}) \ stop_words

EndsWith(word, suffix) ==
    Len(word) >= Len(suffix)
    /\ SubSeq(word, Len(word) - Len(suffix) + 1, Len(word)) = suffix

StartsWith(word, prefix) ==
    Len(word) >= Len(prefix) /\ SubSeq(word, 1, Len(prefix)) = prefix

normalize_word(word) ==
    IF Len(word) > 4
    THEN IF EndsWith(word, <<"s">>) /\ ~EndsWith(word, <<"s", "s">>)
         THEN SubSeq(word, 1, Len(word) - 1)
         ELSE IF EndsWith(word, <<"e", "s">>) THEN SubSeq(word, 1, Len(word) - 2)
         ELSE IF EndsWith(word, <<"m", "e", "n", "t">>) THEN SubSeq(word, 1, Len(word) - 4)
         ELSE word
    ELSE word

words_match_fuzzy(word1, word2) ==
    \/ word1 = word2
    \/ normalize_word(word1) = normalize_word(word2)
    \/ /\ Len(word1) >= 4
       /\ Len(word2) >= 4
       /\ (StartsWith(word1, word2) \/ StartsWith(word2, word1))

\* exact fractions <<numerator, denominator>>
FracAdd(a, b) == <<a[1] * b[2] + b[1] * a[2], a[2] * b[2]>>
FracMul(a, b) == <<a[1] * b[1], a[2] * b[2]>>

MatchingCount(pred_words, ref_words) ==
    Cardinality({pw \in pred_words : \E rw \in ref_words : words_match_fuzzy(pw, rw)})

Coverage(matching_count, total) ==
    IF matching_count = total
    THEN FracAdd(<<matching_count, total>>, <<3, 10>>)
    ELSE <<matching_count, total>>

WordScoreOf(pred_words, ref_words) ==
    IF pred_words = {} THEN ScoreZero
    ELSE Coverage(MatchingCount(pred_words, ref_words), Cardinality(pred_words))

word_overlap_score(pred, ref) ==
    WordScoreOf(get_significant_words(pred), get_significant_words(ref))

\* length of the common run of a from i and b from j, within a[..ahi], b[..bhi]
RECURSIVE CommonRun(_, _, _, _, _, _)
CommonRun(a, b, i, j, ahi, bhi) ==
    IF i <= ahi /\ j <= bhi /\ a[i] = b[j]
    THEN 1 + CommonRun(a, b, i + 1, j + 1, ahi, bhi)
    ELSE 0

\* SequenceMatcher.find_longest_match on a[alo..ahi], b[blo..bhi] (1-based,
\* inclusive): the longest block, the earliest in a, then the earliest in b
Starts(alo, ahi, blo, bhi) == (alo..ahi) \X (blo..bhi)

Better(a, b, p, q, ahi, bhi) ==
    \/ CommonRun(a, b, p[1], p[2], ahi, bhi) > CommonRun(a, b, q[1], q[2], ahi, bhi)
    \/ /\ CommonRun(a, b, p[1], p[2], ahi, bhi) = CommonRun(a, b, q[1], q[2], ahi, bhi)
       /\ (p[1] < q[1] \/ (p[1] = q[1] /\ p[2] <= q[2]))

find_longest_match(a, b, alo, ahi, blo, bhi) ==
    CHOOSE p \in Starts(alo, ahi, blo, bhi) :
        \A q \in Starts(alo, ahi, blo, bhi) : Better(a, b, p, q, ahi, bhi)

\* the total size of get_matching_blocks
RECURSIVE MatchedSize(_, _, _, _, _, _)
BlockAndRest(a, b, alo, ahi, blo, bhi, p, k) ==
    IF k = 0 THEN 0
    ELSE k + MatchedSize(a, b, alo, p[1] - 1, blo, p[2] - 1)
           + MatchedSize(a, b, p[1] + k, ahi, p[2] + k, bhi)

MatchedSize(a, b, alo, ahi, blo, bhi) ==
    IF alo > ahi \/ blo > bhi THEN 0
    ELSE BlockAndRest(a, b, alo, ahi, blo, bhi,
                      find_longest_match(a, b, alo, ahi, blo, bhi),
                      CommonRun(a, b, find_longest_match(a, b, alo, ahi, blo, bhi)[1],
                                find_longest_match(a, b, alo, ahi, blo, bhi)[2], ahi, bhi))

\* SequenceMatcher(None, s1, s2).ratio()
string_similarity(s1, s2) ==
    IF Len(s1) + Len(s2) = 0 THEN ScoreOne
    ELSE <<2 * MatchedSize(s1, s2, 1, Len(s1), 1, Len(s2)), Len(s1) + Len(s2)>>

\* a dict built from the sector list: a key keeps its first position and its
\* last value
RECURSIVE DictPut(_, _, _)
DictPut(dict, key, value) ==
    IF dict = <<>> THEN <<[key |-> key, value |-> value]>>
    ELSE IF Head(dict).key = key THEN <<[key |-> key, value |-> value]>> \o Tail(dict)
    ELSE <<Head(dict)>> \o DictPut(Tail(dict), key, value)

RECURSIVE SectorsNormalizedFrom(_, _)
SectorsNormalizedFrom(list, dict) ==
    IF list = <<>> THEN dict
    ELSE SectorsNormalizedFrom(Tail(list),
                               DictPut(dict, normalize_for_comparison(Head(list)), Head(list)))

sectors_normalized(list) == SectorsNormalizedFrom(list, <<>>)

RECURSIVE SectorsLowerFrom(_, _)
SectorsLowerFrom(list, dict) ==
    IF list = <<>> THEN dict
    ELSE SectorsLowerFrom(Tail(list), DictPut(dict, LowerAll(Head(list)), Head(list)))

sectors_lower(list) == SectorsLowerFrom(list, <<>>)

HasKey(dict, key) == \E i \in 1..Len(dict) : dict[i].key = key

Lookup(dict, key) == dict[CHOOSE i \in 1..Len(dict) : dict[i].key = key].value

\* pred_normalized in ref_norm
Contained(pred_normalized, ref_norm) == IsSubstring(pred_normalized, ref_norm)

\* containment_matches, in dict order
ContainmentMatches(dict, pred_normalized) ==
    SelectSeq(dict, LAMBDA e : Contained(pred_normalized, e.key))

\* containment_matches.sort(key=len)[0]: the first of the shortest
ShortestFirst(matches) ==
    matches[CHOOSE i \in 1..Len(matches) :
        /\ \A j \in 1..Len(matches) : Len(matches[i].key) <= Len(matches[j].key)
        /\ \A j \in 1..(i - 1) : Len(matches[j].key) > Len(matches[i].key)].value

\* the score of tier 4 for one reference entry
CombinedScore(pred_normalized, ref_norm) ==
    FracAdd(FracAdd(FracMul(word_overlap_score(pred_normalized, ref_norm), <<7, 10>>),
                    FracMul(string_similarity(pred_normalized, ref_norm), <<3, 10>>)),
            IF IsSubstring(pred_normalized, ref_norm) THEN <<2, 10>> ELSE ScoreZero)

NoBest == [best_match |-> None, best_score |-> ScoreZero]

KeepBest(best, score, ref_original) ==
    IF ScoreGT(score, best.best_score)
    THEN [best_match |-> ref_original, best_score |-> score]
    ELSE best

\* the loop of tier 4
RECURSIVE BestByScore(_, _, _)
BestByScore(dict, pred_normalized, best) ==
    IF dict = <<>> THEN best
    ELSE BestByScore(Tail(dict), pred_normalized,
                     KeepBest(best, CombinedScore(pred_normalized, Head(dict).key),
                              Head(dict).value))

AboveThreshold(best, threshold) ==
    IF ScoreGE(best.best_score, threshold) THEN best.best_match ELSE None

\* tiers 3 and 4
ContainmentOrFuzzy(dict, pred_normalized, threshold) ==
    IF ContainmentMatches(dict, pred_normalized) # <<>>
    THEN ShortestFirst(ContainmentMatches(dict, pred_normalized))
    ELSE AboveThreshold(BestByScore(dict, pred_normalized, NoBest), threshold)

\* tiers 1 and 2, then the rest; prediction is already stripped
MatchStripped(list, prediction, threshold) ==
    IF HasKey(sectors_lower(list), LowerAll(prediction))
    THEN Lookup(sectors_lower(list), LowerAll(prediction))
    ELSE IF HasKey(sectors_normalized(list), normalize_for_comparison(prediction))
    THEN Lookup(sectors_normalized(list), normalize_for_comparison(prediction))
    ELSE ContainmentOrFuzzy(sectors_normalized(list),
                            normalize_for_comparison(prediction), threshold)

\* SectorMatcher.match(prediction, threshold)
match(list, prediction, threshold) ==
    IF ~Truthy(prediction) THEN None
    ELSE MatchStripped(list, Strip(prediction), threshold)

(***************************************************************************)
(* Inputs and operations of the sector matcher                             *)
(***************************************************************************)
SectorBar == <<"B", "a", "r">>
SectorBarTabac == <<"B", "a", "r", " ", "t", "a", "b", "a", "c">>
SectorBarVin == <<"B", "a", "r", " ", "a", " ", "v", "i", "n">>
SectorRestauration == <<"R", "e", "s", "t", "a", "u", "r", "a", "t", "i", "o", "n">>
SectorCafe == <<"C", "a", "f", "e^">>
SectorCafeBar == <<"C", "a", "f", "e^", " ", "b", "a", "r">>

PredBar == <<"b", "a", "r">>
PredBarUpper == <<"B", "A", "R">>
PredCafe == <<"c", "a", "f", "e">>
PredTabac == <<"t", "a", "b", "a", "c">>
PredBarVin == <<"b", "a", "r", " ", "a", " ", "v", "i", "n">>
PredBarPresse == <<"b", "a", "r", " ", "t", "a", "b", "a", "c", " ", "p", "r", "e", "s", "s", "e">>
PredRestaurant == <<"r", "e", "s", "t", "a", "u", "r", "a", "n", "t">>
PredRestaurations == <<"r", "e", "s", "t", "a", "u", "r", "a", "t", "i", "o", "n", "s">>
PredBlank == <<" ">>
PredOther == <<"x", "x">>
PredCafePadded == <<" ", "C", "a", "f", "e^", " ">>
PredBars == <<"b", "a", "r", "s">>

\* libelle_secteur.txt: the lines load_sectors may yield
\* the empty prediction, and one of a space and a tabulation
PredEmpty == <<>>
PredBlanks == <<" ", "\t">>

SectorFiles ==
    {<<SectorBar, SectorBarTabac, SectorRestauration>>,
     <<SectorBarTabac, SectorBarVin, SectorCafe>>,
     <<SectorBarVin, SectorBarTabac, SectorRestauration>>,
     <<SectorCafeBar, SectorCafe, SectorBar>>,
     <<SectorRestauration, SectorCafeBar>>}

Predictions ==
    {PredBar, PredBarUpper, PredCafe, PredTabac, PredBarVin, PredBarPresse,
     PredRestaurant, PredRestaurations, PredBlank, PredOther, PredCafePadded, PredBars,
     PredEmpty, PredBlanks}

\* the default threshold and the one the agent passes
SectorThresholds == {<<6, 10>>, <<5, 10>>}

InitSect ==
    /\ sectors = <<>>
    /\ sectIn = <<>>
    /\ sectThreshold = <<6, 10>>
    /\ sectOut = None
    /\ sectPc = "unloaded"

FileNotFoundError == <<"<FileNotFoundError>">>

\* get_sector_matcher for a first query: SectorMatcher.__init__ reads the
\* reference file; without the file load_sectors raises, the singleton stays
\* None and the caller gets the exception
SectorMatcherInit ==
    /\ sectPc = "unloaded"
    /\ \E exists \in BOOLEAN :
        IF exists
        THEN /\ \E file \in SectorFiles : sectors' = file
             /\ sectPc' = "idle"
             /\ UNCHANGED sectOut
        ELSE /\ sectOut' = FileNotFoundError
             /\ sectPc' = "raised"
             /\ UNCHANGED sectors
    /\ UNCHANGED <<sectIn, sectThreshold>>
    /\ UNCHANGED <<locVars, refVars, convVars, normVars, sizeVars, mergeVars, actVars>>

\* SectorMatcher.match(prediction, threshold)
SectorMatchCall ==
    /\ sectPc = "idle"
    /\ \E prediction \in Predictions, threshold \in SectorThresholds :
        /\ sectIn' = prediction
        /\ sectThreshold' = threshold
        /\ sectOut' = match(sectors, prediction, threshold)
    /\ sectPc' = "done"
    /\ UNCHANGED sectors
    /\ UNCHANGED <<locVars, refVars, convVars, normVars, sizeVars, mergeVars, actVars>>

\* the caller takes the result, or the exception
SectorReturn ==
    /\ sectPc \in {"done", "raised"}
    /\ sectIn' = <<>>
    /\ sectThreshold' = <<6, 10>>
    /\ sectOut' = None
    /\ sectPc' = IF sectPc = "done" THEN "idle" ELSE "unloaded"
    /\ UNCHANGED sectors
    /\ UNCHANGED <<locVars, refVars, convVars, normVars, sizeVars, mergeVars, actVars>>

(***************************************************************************)
(* Properties of the sector matcher                                        *)
(***************************************************************************)
PredStripped == Strip(sectIn)
PredNormalized == normalize_for_comparison(PredStripped)

\* no sector equals the prediction in lower case or after normalization
NoExactMatch ==
    /\ \A i \in 1..Len(sectors) : LowerAll(sectors[i]) # LowerAll(PredStripped)
    /\ \A i \in 1..Len(sectors) : normalize_for_comparison(sectors[i]) # PredNormalized

\* the sectors that contain the normalized prediction or are contained in it
ContainmentHits ==
    {sectors[i] : i \in {j \in 1..Len(sectors) :
        \/ IsSubstring(PredNormalized, normalize_for_comparison(sectors[j]))
        \/ IsSubstring(normalize_for_comparison(sectors[j]), PredNormalized)}}

\* the sectors that contain the normalized prediction
ContainingHits ==
    {sectors[i] : i \in {j \in 1..Len(sectors) :
        IsSubstring(PredNormalized, normalize_for_comparison(sectors[j]))}}

Shortest(hits, s) ==
    /\ s \in hits
    /\ \A h \in hits :
        Len(normalize_for_comparison(s)) <= Len(normalize_for_comparison(h))

\* C18: with no exact match and at least one sector containing the normalized
\* prediction or contained in it, match returns a shortest such sector,
\* whatever the threshold
C18_ContainmentEitherWay ==
    (sectPc = "done" /\ Truthy(sectIn) /\ NoExactMatch /\ ContainmentHits # {}) =>
        Shortest(ContainmentHits, sectOut)

\* the one direction the code tests: with no exact match and at least one
\* sector containing the normalized prediction, match returns a shortest one
C18_PredictionInsideSector ==
    (sectPc = "done" /\ Truthy(sectIn) /\ NoExactMatch /\ ContainingHits # {}) =>
        Shortest(ContainingHits, sectOut)

C18_Witness ==
    /\ sectPc = "done"
    /\ sectIn = PredBar
    /\ sectors = <<SectorBarVin, SectorBarTabac, SectorRestauration>>
    /\ NoExactMatch
    /\ sectOut = SectorBarVin

\* C24: when a reference file (here the sector list) is missing at startup,
\* the process does not abort and the matcher that depends on the file
\* answers "no match" to every query instead of raising an error.
C24_MissingFileAnswersNoMatch ==
    sectPc = "raised" => sectOut = None

\* C30: SectorMatcher.match returns none for an empty prediction and for one
\* made of white space only.
C30_BlankPredictionNoMatch ==
    (sectPc = "done" /\ Strip(sectIn) = <<>>) => sectOut = None

(***************************************************************************)
(* AgentService.process_with_api, the conversation endpoints and /chat     *)
(***************************************************************************)
\* largest number of messages stored in the conversation
MaxMessages == 6

\* Optional[int]: <<>> is None, <<c>> is the integer c
NoCount == <<>>
SomeCount(c) == <<c>>

\* what the language model answers: criteria, a rejection, or nothing that
\* parses; its criteria are the bundles below
LlmExtractions ==
    {Extraction(lo, Activite(TRUE, None, Txt("restauration")), ta, fi, fi_ju) :
        lo \in RawLocalisations \ {Localisation(TRUE, FALSE, None, Paris, None, None)},
        ta \in {TailleSection(TRUE, None, AcrGE, None),
                TailleSection(FALSE, None, None, None)},
        fi \in {Financiers(TRUE, Txt("1000000"))},
        fi_ju \in {Juridiques(TRUE, Txt("oui"), None), Juridiques(FALSE, None, None)}}

LlmAnswers ==
    {[action |-> "extract", data |-> x] : x \in LlmExtractions}
    \cup {[action |-> a, data |-> AllAbsent] : a \in {"reject", "failure"}}

\* AgentService.process_message: one call of the language model, then the
\* post-processing of the criteria; anything else is a rejection
process_message(llm, init, C, D, R) ==
    IF llm.action = "extract"
    THEN [action |-> "extract",
          extraction_result |-> AgentPostProcess(llm.data, init, C, D, R)]
    ELSE [action |-> "reject", extraction_result |-> AllAbsent]

\* the activity matcher and the selection of NAF codes: codes, no good match,
\* or an exception
MatcherOutcomes == {"codes", "no_match", "raises"}

NafCodes(extraction_result, matcher) ==
    IF Truthy(extraction_result.activite.activite_entreprise) /\ matcher = "codes"
    THEN <<"56.10A">>
    ELSE <<>>

\* the parameters of transform_extraction_to_api_request, and the arguments
\* process_with_api calls it with
TransformParameters == <<"extraction", "naf_codes">>
TransformCall ==
    [positional |-> <<"extraction_result", "naf_codes">>,
     keywords |-> {"original_activity_text"}]

\* Python's binding of a call: every keyword names a parameter that no
\* positional argument has taken; otherwise the call raises TypeError
CallBinds(parameters, call) ==
    /\ Len(call.positional) <= Len(parameters)
    /\ \A k \in call.keywords :
          \E i \in (Len(call.positional) + 1)..Len(parameters) : parameters[i] = k

\* the answers of the count API: HTTP 200 with a count, an error status, or no
\* answer at all (status 0: timeout, connection error)
ApiCounts == {0, REFINEMENT_THRESHOLD, REFINEMENT_THRESHOLD + 1}
ApiAnswers ==
    {[status |-> 200, count |-> c] : c \in ApiCounts}
    \cup {[status |-> s, count |-> 0] : s \in {0, 400, 401, 456, 500}}

\* CompanyAPIClient.count_companies: an APIResponse on HTTP 200, else
\* CompanyAPIError
count_companies(answer) ==
    IF answer.status = 200
    THEN [raised |-> FALSE,
          response |-> [success |-> TRUE, count |-> answer.count,
                        data |-> "json", error |-> "none"]]
    ELSE [raised |-> TRUE,
          response |-> [success |-> FALSE, count |-> 0, data |-> "none",
                        error |-> "CompanyAPIError"]]

AgentResponse(action, message, extraction_result, company_count, naf_codes) ==
    [action |-> action, message |-> message, extraction_result |-> extraction_result,
     company_count |-> company_count, naf_codes |-> naf_codes]

\* `except CompanyAPIError`
ApiErrorResponse(extraction_result, naf_codes) ==
    AgentResponse("extract", "api_error", extraction_result, NoCount, naf_codes)

\* `except Exception`
UnexpectedErrorResponse(extraction_result, naf_codes) ==
    AgentResponse("extract", "unexpected_error", extraction_result, NoCount, naf_codes)

\* after count_companies returned: company_count = api_response.count, then
\* the read of api_response.count_semantic, then the final return
AfterCount(extraction_result, naf_codes, api_response) ==
    IF "count_semantic" \in DOMAIN api_response
    THEN AgentResponse("extract", "count", extraction_result,
                       SomeCount(api_response.count), naf_codes)
    ELSE UnexpectedErrorResponse(extraction_result, naf_codes)

\* after the request was built: the call of the count API
AfterTransform(extraction_result, naf_codes, counted) ==
    IF counted.raised THEN ApiErrorResponse(extraction_result, naf_codes)
    ELSE AfterCount(extraction_result, naf_codes, counted.response)

\* whether process_with_api gets as far as sending the count request
ReachesApi(extraction_result, matcher) ==
    /\ ~(Truthy(extraction_result.activite.activite_entreprise) /\ matcher = "raises")
    /\ CallBinds(TransformParameters, TransformCall)

\* AgentService.process_with_api; refinement_round is accepted and not used
process_with_api(extraction_result, refinement_round, matcher, answer) ==
    IF Truthy(extraction_result.activite.activite_entreprise) /\ matcher = "raises"
    THEN UnexpectedErrorResponse(extraction_result, <<>>)
    ELSE IF ~CallBinds(TransformParameters, TransformCall)
    THEN UnexpectedErrorResponse(extraction_result, NafCodes(extraction_result, matcher))
    ELSE AfterTransform(extraction_result, NafCodes(extraction_result, matcher),
                        count_companies(answer))

\* a section the bundle does not hold: the `{}` of `.get(section, {})`
EmptySection == <<>>

\* section.get("present", False)
SectionPresent(section) ==
    IF section = EmptySection THEN FALSE ELSE section.present

\* the merge that keeps nothing of the old bundle
_merge_extractions_new(old, new) == new

\* _merge_extractions: section by section, the new one when present, else the
\* old one when present, else the new one unless it is empty
_merge_extractions(old, new) ==
    [section \in DOMAIN new |->
        IF SectionPresent(new[section]) THEN new[section]
        ELSE IF SectionPresent(old[section]) THEN old[section]
        ELSE IF new[section] # EmptySection THEN new[section]
        ELSE old[section]]

\* the extraction_result column of the conversation
NoStored ==
    [kind |-> "null", extraction |-> AllAbsent, company_count |-> NoCount,
     refinement_round |-> 0]

\* current_extraction.get("refinement_round", 0)
StoredRound(stored) == IF stored.kind = "partial" THEN stored.refinement_round ELSE 0

\* the branch on api_response.action of both endpoints: update_extraction
\* keeps the conversation active, complete closes it
StoreOutcome(api_response, refinement_round) ==
    IF api_response.action = "refine"
    THEN [status |-> "active",
          stored |-> [kind |-> "partial", extraction |-> api_response.extraction_result,
                      company_count |-> api_response.company_count,
                      refinement_round |-> refinement_round]]
    ELSE [status |-> "completed",
          stored |-> [kind |-> "final", extraction |-> api_response.extraction_result,
                      company_count |-> api_response.company_count,
                      refinement_round |-> 0]]

NoAnswer == [status |-> 0, count |-> 0]

\* the outcome of a request: the endpoint, its HTTP status, what the agent
\* did, what was handed to process_with_api, how the count API would answer,
\* and what the reply carries
Reply(handler, http, agent_action, extraction, round, answer, kind, company_count) ==
    [handler |-> handler, http |-> http, agent_action |-> agent_action,
     extraction |-> extraction, round |-> round, api |-> answer, kind |-> kind,
     company_count |-> company_count]

NoReply == Reply("none", 0, "none", AllAbsent, 0, NoAnswer, "none", NoCount)

\* the reply of a request whose extraction succeeded
ExtractReply(handler, http, extraction, round, answer, api_response) ==
    Reply(handler, http, "extract", extraction, round, answer,
          IF api_response.action = "refine" THEN "refine" ELSE "results",
          api_response.company_count)

RejectReply(handler, http) ==
    Reply(handler, http, "reject", AllAbsent, 0, NoAnswer, "reject", NoCount)

InitConv ==
    /\ convStatus = "none"
    /\ convStored = NoStored
    /\ convMessages = 0
    /\ apiCalled = FALSE
    /\ reply = NoReply

\* POST /api/v1/conversations
create_conversation ==
    \E llm \in LlmAnswers, matcher \in MatcherOutcomes, answer \in ApiAnswers :
        LET agent_response ==
                process_message(llm, initialized, communes, departements, regions)
            api_response ==
                process_with_api(agent_response.extraction_result, 1, matcher, answer)
        IN  /\ reply = NoReply
            /\ convStatus = "none"
            /\ convMessages' = 2
            /\ IF agent_response.action = "extract"
               THEN /\ convStatus' = StoreOutcome(api_response, 1).status
                    /\ convStored' = StoreOutcome(api_response, 1).stored
                    /\ apiCalled' = ReachesApi(agent_response.extraction_result, matcher)
                    /\ reply' = ExtractReply("create_conversation", 201,
                                             agent_response.extraction_result, 1,
                                             answer, api_response)
               ELSE /\ convStatus' = "active"
                    /\ convStored' = NoStored
                    /\ apiCalled' = FALSE
                    /\ reply' = RejectReply("create_conversation", 201)
            /\ UNCHANGED <<locVars, refVars, normVars, sizeVars, sectVars, mergeVars, actVars>>

\* the extraction send_message hands to process_with_api
MergedExtraction(stored, extraction_result) ==
    IF stored.kind = "partial"
    THEN _merge_extractions(stored.extraction, extraction_result)
    ELSE extraction_result

\* POST /api/v1/conversations/{id}/messages
send_message ==
    \E llm \in LlmAnswers, matcher \in MatcherOutcomes, answer \in ApiAnswers :
        LET agent_response ==
                process_message(llm, initialized, communes, departements, regions)
            refinement_round == StoredRound(convStored) + 1
            merged_extraction ==
                MergedExtraction(convStored, agent_response.extraction_result)
            api_response ==
                process_with_api(merged_extraction, refinement_round, matcher, answer)
        IN  IF reply # NoReply THEN FALSE
            ELSE IF convStatus = "none"
            THEN /\ reply' = Reply("send_message", 404, "none", AllAbsent, 0, NoAnswer,
                                   "none", NoCount)
                 /\ apiCalled' = FALSE
                 /\ UNCHANGED <<convStatus, convStored, convMessages>>
                 /\ UNCHANGED <<locVars, refVars, normVars, sizeVars, sectVars, mergeVars, actVars>>
            ELSE IF convStatus # "active"
            THEN /\ reply' = Reply("send_message", 400, "none", AllAbsent, 0, NoAnswer,
                                   "none", NoCount)
                 /\ apiCalled' = FALSE
                 /\ UNCHANGED <<convStatus, convStored, convMessages>>
                 /\ UNCHANGED <<locVars, refVars, normVars, sizeVars, sectVars, mergeVars, actVars>>
            ELSE /\ convMessages + 2 <= MaxMessages
                 /\ convMessages' = convMessages + 2
                 /\ IF agent_response.action = "extract"
                    THEN /\ convStatus' = StoreOutcome(api_response, refinement_round).status
                         /\ convStored' = StoreOutcome(api_response, refinement_round).stored
                         /\ apiCalled' = ReachesApi(merged_extraction, matcher)
                         /\ reply' = ExtractReply("send_message", 200, merged_extraction,
                                                  refinement_round, answer, api_response)
                    ELSE /\ UNCHANGED <<convStatus, convStored>>
                         /\ apiCalled' = FALSE
                         /\ reply' = RejectReply("send_message", 200)
                 /\ UNCHANGED <<locVars, refVars, normVars, sizeVars, sectVars, mergeVars, actVars>>

\* DELETE /api/v1/conversations/{id}
delete_conversation ==
    /\ reply = NoReply
    /\ convStatus # "none"
    /\ convStatus' = "none"
    /\ convStored' = NoStored
    /\ convMessages' = 0
    /\ UNCHANGED <<apiCalled, reply>>
    /\ UNCHANGED <<locVars, refVars, normVars, sizeVars, sectVars, mergeVars, actVars>>

\* POST /api/v1/chat: stateless, the same two calls, the count copied into
\* the ChatResponse
chat ==
    \E llm \in LlmAnswers, matcher \in MatcherOutcomes, answer \in ApiAnswers :
        LET agent_response ==
                process_message(llm, initialized, communes, departements, regions)
            api_response ==
                process_with_api(agent_response.extraction_result, 1, matcher, answer)
        IN  /\ reply = NoReply
            /\ IF agent_response.action = "extract"
               THEN /\ apiCalled' = ReachesApi(agent_response.extraction_result, matcher)
                    /\ reply' = ExtractReply("chat", 200, agent_response.extraction_result,
                                             1, answer, api_response)
               ELSE /\ apiCalled' = FALSE
                    /\ reply' = RejectReply("chat", 200)
            /\ UNCHANGED <<convStatus, convStored, convMessages>>
            /\ UNCHANGED <<locVars, refVars, normVars, sizeVars, sectVars, mergeVars, actVars>>

\* the reply is sent; the server keeps nothing of the request
RequestDone ==
    /\ reply # NoReply
    /\ reply' = NoReply
    /\ apiCalled' = FALSE
    /\ UNCHANGED <<convStatus, convStored, convMessages>>
    /\ UNCHANGED <<locVars, refVars, normVars, sizeVars, sectVars, mergeVars, actVars>>

\* C3: after a successful extraction, create_conversation and send_message
\* hand the count the count API returns to the refinement decision: when the
\* count exceeds the threshold and delivery is not forced, the reply is a
\* refinement question, the conversation stays active and the partial
\* extraction is stored with its refinement round; otherwise the conversation
\* is completed with the results.
C3_CountDrivesRefinement ==
    (/\ reply.handler \in {"create_conversation", "send_message"}
     /\ reply.agent_action = "extract"
     /\ reply.api.status = 200)
    => IF ~should_deliver_results(reply.api.count, reply.extraction, reply.round)
       THEN /\ reply.kind = "refine"
            /\ convStatus = "active"
            /\ convStored.kind = "partial"
            /\ convStored.extraction = reply.extraction
            /\ convStored.refinement_round = reply.round
       ELSE /\ reply.kind = "results"
            /\ convStatus = "completed"
            /\ convStored.kind = "final"

\* C4: when the extraction succeeds and the count API answers HTTP 200 with
\* count c, process_with_api returns company_count = c and the /chat response
\* carries it; company_count is null only when the call of the count API failed.
C4_CountReturnedOn200 ==
    reply.agent_action = "extract"
    => /\ reply.api.status = 200 => reply.company_count = SomeCount(reply.api.count)
       /\ reply.company_count = NoCount => (apiCalled /\ reply.api.status # 200)

\* C25: when the count API fails (unauthorized, bad request, conflict of
\* criteria, no answer), no deliver or refine decision is taken on the missing
\* count: the endpoint surfaces the failure and does not complete the
\* conversation as if results had been delivered.
C25_CountFailureNotDelivered ==
    (/\ reply.handler \in {"create_conversation", "send_message"}
     /\ reply.agent_action = "extract"
     /\ reply.api.status # 200)
    => /\ reply.kind \notin {"results", "refine"}
       /\ convStatus # "completed"

(***************************************************************************)
(* Merging the extractions of a refinement (conversation_router.py)        *)
(***************************************************************************)
MaxTurns == 3

\* what a bundle may hold for a section: nothing, an absent section, or one of
\* two present sections
SectionKinds == <<"empty", "absent", "first", "second">>

SectionOf(section, kind) ==
    IF kind = "empty" THEN EmptySection
    ELSE IF section = "localisation"
    THEN Localisation(TRUE, kind # "absent", None,
                      IF kind = "first" THEN Lyon ELSE IF kind = "second" THEN Paris
                      ELSE None, None, None)
    ELSE IF section = "activite"
    THEN Activite(kind # "absent", None,
                  IF kind = "first" THEN Txt("restauration")
                  ELSE IF kind = "second" THEN Txt("coiffure") ELSE None)
    ELSE IF section = "taille_entreprise"
    THEN TailleSection(kind # "absent", None,
                       IF kind = "first" THEN AcrPME
                       ELSE IF kind = "second" THEN AcrGE ELSE None, None)
    ELSE IF section = "criteres_financiers"
    THEN Financiers(kind # "absent",
                    IF kind = "first" THEN Txt("1000000")
                    ELSE IF kind = "second" THEN Txt("5000000") ELSE None)
    ELSE Juridiques(kind # "absent",
                    IF kind = "first" THEN Txt("oui")
                    ELSE IF kind = "second" THEN Txt("non") ELSE None, None)

\* the bundle whose i-th section is of the i-th kind
BundleOf(kinds) ==
    Extraction(SectionOf("localisation", kinds[1]), SectionOf("activite", kinds[2]),
               SectionOf("taille_entreprise", kinds[3]),
               SectionOf("criteres_financiers", kinds[4]),
               SectionOf("criteres_juridiques", kinds[5]))

\* the bundles merged: the same kind in every section, and the four kinds in
\* turn over the sections, so that each section meets every pair of kinds
MergeBundles ==
    {BundleOf([i \in 1..5 |-> SectionKinds[k]]) : k \in 1..4}
    \cup {BundleOf([i \in 1..5 |-> SectionKinds[((i + k) % 4) + 1]]) : k \in 1..4}

InitMerge ==
    /\ mergeStored = AllAbsent
    /\ mergeOld = AllAbsent
    /\ mergeNew = AllAbsent
    /\ mergeOut = AllAbsent
    /\ mergeTurns = 0
    /\ mergePc = "idle"

\* update_extraction with partial_extraction: the first partial extraction of
\* a refinement is stored
StorePartial ==
    /\ mergePc = "idle"
    /\ \E extraction \in MergeBundles :
        /\ mergeStored' = extraction
        /\ mergeOut' = extraction
    /\ mergeTurns' = 0
    /\ mergePc' = "refining"
    /\ UNCHANGED <<mergeOld, mergeNew>>
    /\ UNCHANGED <<locVars, refVars, convVars, normVars, sizeVars, sectVars, actVars>>

\* a refinement turn of send_message: the new extraction is merged into the
\* stored one and the merged bundle is stored in its place
MergeTurn ==
    /\ mergePc = "refining"
    /\ mergeTurns < MaxTurns
    /\ \E extraction \in MergeBundles :
        /\ mergeOld' = mergeOut
        /\ mergeNew' = extraction
        /\ mergeOut' = _merge_extractions(mergeOut, extraction)
    /\ mergeTurns' = mergeTurns + 1
    /\ UNCHANGED <<mergeStored, mergePc>>
    /\ UNCHANGED <<locVars, refVars, convVars, normVars, sizeVars, sectVars, actVars>>

\* the conversation is completed: nothing partial is stored any more
MergeDone ==
    /\ mergePc = "refining"
    /\ mergeStored' = AllAbsent
    /\ mergeOld' = AllAbsent
    /\ mergeNew' = AllAbsent
    /\ mergeOut' = AllAbsent
    /\ mergeTurns' = 0
    /\ mergePc' = "idle"
    /\ UNCHANGED <<locVars, refVars, convVars, normVars, sizeVars, sectVars, actVars>>

SectionNames == {SECTIONS[i] : i \in 1..Len(SECTIONS)}

\* C26: _merge_extractions yields, for each of the five sections, the new
\* section when it is present and else the old section when that one is
\* present; so a section present in the stored partial extraction is still
\* present in the merged bundle after any number of refinement turns, and
\* merging a bundle with itself returns the same five sections.
C26_MergeKeepsPresentSections ==
    /\ mergeTurns > 0 =>
        \A section \in SectionNames :
            /\ SectionPresent(mergeNew[section]) =>
                   mergeOut[section] = mergeNew[section]
            /\ (~SectionPresent(mergeNew[section])
                /\ SectionPresent(mergeOld[section])) =>
                   mergeOut[section] = mergeOld[section]
    /\ mergePc = "refining" =>
        \A section \in SectionNames :
            SectionPresent(mergeStored[section]) => SectionPresent(mergeOut[section])
    /\ (mergeTurns > 0 /\ mergeOld = mergeNew) => mergeOut = mergeOld

\* after two turns, a section of the first partial extraction that neither
\* turn mentioned again is still the stored one, while another section was
\* replaced by a new one
C26_Witness ==
    /\ mergeTurns = 2
    /\ \E section \in SectionNames :
        /\ SectionPresent(mergeStored[section])
        /\ ~SectionPresent(mergeNew[section])
        /\ mergeOut[section] = mergeStored[section]
    /\ \E section \in SectionNames :
        /\ SectionPresent(mergeOld[section])
        /\ SectionPresent(mergeNew[section])
        /\ mergeNew[section] # mergeOld[section]
        /\ mergeOut[section] = mergeNew[section]

(***************************************************************************)
(* Activity matcher (services/activity_matcher.py)                         *)
(***************************************************************************)
MaxRestarts == 2

\* the batches of _load_or_create_embeddings hold 100 labels; the catalogs
\* below are cut into batches of two
batch_size == 2

\* a file that does not exist
MissingFile == <<"<missing>">>

\* an Optional value: None, or the value
Nothing == <<>>
Some(value) == <<value>>
ValueOf(optional) == optional[1]

\* the singleton before its creation
NoMatcher == "<None>"

\* libelle_activite.txt, as its lines are read
ActivityCatalogs ==
    {<<"Restauration", "Coiffure", "Boulangerie">>, <<"Coiffure", "Restauration">>}

\* OPENAI_EMBEDDING_MODEL
EmbeddingModels == {"text-embedding-3-small", "text-embedding-3-large"}

\* the vector the provider computes for a text with a model; the vectors of
\* two texts or of two models are orthogonal unit vectors
Embedding(text, model) == <<text, model>>

\* get_openai_embeddings_batch: one vector per text in the order of the
\* texts, or None when the key is not set, the request fails or its answer
\* cannot be read
get_openai_embeddings_batch(texts, model, answers) ==
    IF answers THEN Some([i \in 1..Len(texts) |-> Embedding(texts[i], model)])
    ELSE Nothing

\* get_openai_embedding: the vector of the query, or None
get_openai_embedding(text, model, answers) ==
    IF answers THEN Some(Embedding(text, model)) ELSE Nothing

\* ActivityMatcher.__init__
ActivityMatcher ==
    [activities |-> <<>>, embeddings |-> Nothing, _initialized |-> FALSE]

\* the content pickled into the cache file
CacheData(activities, embeddings, model) ==
    [activities |-> activities, embeddings |-> embeddings, model |-> model]

\* the test that keeps only the label list of the fingerprint
CacheValid_labels(cache, activities, model) ==
    IF cache = Nothing THEN FALSE ELSE ValueOf(cache).activities = activities

\* _load_or_create_embeddings, the test of the cache (None without the file):
\* the file exists, holds the activities just read and the configured model
CacheValid(cache, activities, model) ==
    IF cache = Nothing THEN FALSE
    ELSE ValueOf(cache).activities = activities /\ ValueOf(cache).model = model

\* batch = self.activities[i:i + batch_size]
Batch(activities, i) ==
    SubSeq(activities, i + 1,
           IF i + batch_size < Len(activities) THEN i + batch_size
           ELSE Len(activities))

\* the cosine similarity of two of the provider's vectors, in tenths
Similarity(u, v) == IF u = v THEN 10 ELSE 0

\* threshold = 0.3, in tenths
ACTIVITY_THRESHOLD == 3

\* the matches of the labels from index i on; of the provider's vectors at
\* most one equals the query's, so the order by similarity is that of the
\* indices (the NAF codes attached to each match are left out)
MatchesFrom(activities, embeddings, query_embedding, i) ==
    LET Rest[k \in 1..(Len(activities) + 1)] ==
            IF k > Len(activities) \/ k > Len(embeddings) THEN <<>>
            ELSE IF Similarity(embeddings[k], query_embedding) >= ACTIVITY_THRESHOLD
            THEN <<[activity |-> activities[k],
                    similarity |-> Similarity(embeddings[k], query_embedding)]>>
                 \o Rest[k + 1]
            ELSE Rest[k + 1]
    IN  Rest[i]

\* ActivityMatcher.find_similar_activities
find_similar_activities(matcher, query_embedding) ==
    IF matcher.embeddings = Nothing THEN <<>>
    ELSE IF query_embedding = Nothing THEN <<>>
    ELSE MatchesFrom(matcher.activities, ValueOf(matcher.embeddings),
                     ValueOf(query_embedding), 1)

\* what _select_naf_codes returns
Selection(selected_indices, explanation, no_good_match) ==
    [selected_indices |-> selected_indices, explanation |-> explanation,
     no_good_match |-> no_good_match]

NoSelection == Selection(<<>>, "none", FALSE)

\* AgentService._select_naf_codes: without matches nothing is asked of the
\* language model; with matches it selects, finds none good, or fails
_select_naf_codes(matches, llm) ==
    IF matches = <<>> THEN Selection(<<>>, "Aucune correspondance trouvee", TRUE)
    ELSE IF llm = "selects" THEN Selection(<<0>>, "llm", FALSE)
    ELSE IF llm = "none_good" THEN Selection(<<>>, "llm", TRUE)
    ELSE Selection(<<0>>, "Selection par defaut", FALSE)

\* the callers of get_activity_matcher (coroutines of the event loop) and of
\* get_activity_matcher_sync (a thread)
Coroutines == {"coroutine1", "coroutine2"}
Callers == Coroutines \cup {"thread"}

\* a coroutine runs from its call to its end without awaiting anything that
\* suspends it: no other coroutine of the loop runs meanwhile
MayRun(c) ==
    c \in Coroutines => \A d \in Coroutines \ {c} : actPc[d] = "idle"

\* the queries: a label of a catalog, or a text far from all of them
ActivityQueries == {"Restauration", "Coiffure", "Plomberie"}

NoInstances == [c \in Callers |-> ActivityMatcher]

\* the first start: the catalog of the repository, the default model, and no
\* cache file yet
InitAct ==
    /\ activitiesOnDisk = <<"Restauration", "Coiffure", "Boulangerie">>
    /\ embeddingModel = "text-embedding-3-small"
    /\ embeddingsOnDisk = Nothing
    /\ _activity_matcher = NoMatcher
    /\ instances = NoInstances
    /\ actPc = [c \in Callers |-> "idle"]
    /\ actSelf = [c \in Callers |-> NoMatcher]
    /\ all_embeddings = [c \in Callers |-> <<>>]
    /\ generations = 0
    /\ cacheWrites = 0
    /\ restarts = 0
    /\ findProvider = "none"
    /\ findOut = <<>>
    /\ selection = NoSelection

\* get_activity_matcher, get_activity_matcher_sync: `if _activity_matcher is None`
CheckSingleton ==
    \E c \in Callers :
        /\ actPc[c] = "idle"
        /\ MayRun(c)
        /\ actPc' = [actPc EXCEPT ![c] = IF _activity_matcher = NoMatcher THEN "creating"
                                          ELSE "returned"]
        /\ UNCHANGED <<activitiesOnDisk, embeddingModel, embeddingsOnDisk,
                       _activity_matcher, instances, actSelf, all_embeddings,
                       generations, cacheWrites, restarts, findProvider, findOut,
                       selection>>
        /\ UNCHANGED <<locVars, refVars, convVars, normVars, sizeVars, sectVars,
                       mergeVars>>

\* `_activity_matcher = ActivityMatcher()`
CreateMatcher ==
    \E c \in Callers :
        /\ actPc[c] = "creating"
        /\ _activity_matcher' = c
        /\ instances' = [instances EXCEPT ![c] = ActivityMatcher]
        /\ actPc' = [actPc EXCEPT ![c] = "initializing"]
        /\ UNCHANGED <<activitiesOnDisk, embeddingModel, embeddingsOnDisk, actSelf,
                       all_embeddings, generations, cacheWrites, restarts,
                       findProvider, findOut, selection>>
        /\ UNCHANGED <<locVars, refVars, convVars, normVars, sizeVars, sectVars,
                       mergeVars>>

\* `_activity_matcher.initialize()` up to the first request to the provider:
\* without the catalog file it returns False; else the labels are read and
\* the cache is tried
Initialize ==
    \E c \in Callers :
        LET self == _activity_matcher
        IN  /\ actPc[c] = "initializing"
            /\ actSelf' = [actSelf EXCEPT ![c] = self]
            /\ IF activitiesOnDisk = MissingFile
               THEN /\ actPc' = [actPc EXCEPT ![c] = "returned"]
                    /\ UNCHANGED <<instances, all_embeddings, generations>>
               ELSE IF CacheValid(embeddingsOnDisk, activitiesOnDisk, embeddingModel)
               THEN /\ instances' =
                        [instances EXCEPT ![self] =
                            [activities |-> activitiesOnDisk,
                             embeddings |->
                                 Some(ValueOf(embeddingsOnDisk).embeddings),
                             _initialized |-> TRUE]]
                    /\ actPc' = [actPc EXCEPT ![c] = "returned"]
                    /\ UNCHANGED <<all_embeddings, generations>>
               ELSE /\ instances' =
                        [instances EXCEPT ![self].activities = activitiesOnDisk]
                    /\ all_embeddings' = [all_embeddings EXCEPT ![c] = <<>>]
                    /\ generations' = generations + 1
                    /\ actPc' = [actPc EXCEPT ![c] = "generating"]
            /\ UNCHANGED <<activitiesOnDisk, embeddingModel, embeddingsOnDisk,
                           _activity_matcher, cacheWrites, restarts, findProvider,
                           findOut, selection>>
            /\ UNCHANGED <<locVars, refVars, convVars, normVars, sizeVars, sectVars,
                           mergeVars>>

\* one turn of the loop over the batches: a failed batch ends the generation
\* with None, and initialize leaves the matcher without embeddings
GenerateBatch ==
    \E c \in Callers, answers \in BOOLEAN :
        LET self == actSelf[c]
            batch == Batch(instances[self].activities, Len(all_embeddings[c]))
            embeddings == get_openai_embeddings_batch(batch, embeddingModel, answers)
        IN  /\ actPc[c] = "generating"
            /\ IF embeddings = Nothing
               THEN /\ instances' = [instances EXCEPT ![self].embeddings = Nothing,
                                                      ![self]._initialized = FALSE]
                    /\ actPc' = [actPc EXCEPT ![c] = "returned"]
                    /\ UNCHANGED all_embeddings
               ELSE /\ all_embeddings' =
                        [all_embeddings EXCEPT ![c] =
                            all_embeddings[c] \o ValueOf(embeddings)]
                    /\ actPc' = [actPc EXCEPT ![c] =
                            IF Len(all_embeddings[c]) + Len(ValueOf(embeddings))
                                   >= Len(instances[self].activities)
                            THEN "saving" ELSE "generating"]
                    /\ UNCHANGED instances
            /\ UNCHANGED <<activitiesOnDisk, embeddingModel, embeddingsOnDisk,
                           _activity_matcher, actSelf, generations, cacheWrites,
                           restarts, findProvider, findOut, selection>>
            /\ UNCHANGED <<locVars, refVars, convVars, normVars, sizeVars, sectVars,
                           mergeVars>>

\* the cache file is written, and initialize takes the vectors
SaveCache ==
    \E c \in Callers :
        LET self == actSelf[c]
        IN  /\ actPc[c] = "saving"
            /\ embeddingsOnDisk' =
                   Some(CacheData(instances[self].activities, all_embeddings[c],
                                  embeddingModel))
            /\ cacheWrites' = cacheWrites + 1
            /\ instances' = [instances EXCEPT
                                ![self].embeddings = Some(all_embeddings[c]),
                                              ![self]._initialized = TRUE]
            /\ actPc' = [actPc EXCEPT ![c] = "returned"]
            /\ UNCHANGED <<activitiesOnDisk, embeddingModel, _activity_matcher,
                           actSelf, all_embeddings, generations, restarts,
                           findProvider, findOut, selection>>
            /\ UNCHANGED <<locVars, refVars, convVars, normVars, sizeVars, sectVars,
                           mergeVars>>

\* process_with_api, a coroutine, with the matcher it was returned: the
\* search, then the selection of the NAF codes
FindSimilar ==
    \E c \in Coroutines, query \in ActivityQueries, answers \in BOOLEAN,
       llm \in {"selects", "none_good", "fails"} :
        LET matcher == instances[_activity_matcher]
            query_embedding == get_openai_embedding(query, embeddingModel, answers)
            matches == find_similar_activities(matcher, query_embedding)
        IN  /\ actPc[c] = "returned"
            /\ findProvider' = IF matcher.embeddings = Nothing THEN "not_asked"
                               ELSE IF answers THEN "answers" ELSE "failure"
            /\ findOut' = matches
            /\ selection' = _select_naf_codes(matches, llm)
            /\ actPc' = [actPc EXCEPT ![c] = "searched"]
            /\ UNCHANGED <<activitiesOnDisk, embeddingModel, embeddingsOnDisk,
                           _activity_matcher, instances, actSelf, all_embeddings,
                           generations, cacheWrites, restarts>>
            /\ UNCHANGED <<locVars, refVars, convVars, normVars, sizeVars, sectVars,
                           mergeVars>>

\* the request ends; the caller of get_activity_matcher_sync only took the
\* matcher
SearchDone ==
    \E c \in Callers :
        /\ actPc[c] = IF c \in Coroutines THEN "searched" ELSE "returned"
        /\ actPc' = [actPc EXCEPT ![c] = "idle"]
        /\ findProvider' = "none"
        /\ findOut' = <<>>
        /\ selection' = NoSelection
        /\ UNCHANGED <<activitiesOnDisk, embeddingModel, embeddingsOnDisk,
                       _activity_matcher, instances, actSelf, all_embeddings,
                       generations, cacheWrites, restarts>>
        /\ UNCHANGED <<locVars, refVars, convVars, normVars, sizeVars, sectVars,
                       mergeVars>>

\* the process is started again, possibly with another catalog or another
\* configured model: the module-level state is gone, the cache file is kept
Restart ==
    /\ \A c \in Callers : actPc[c] = "idle"
    /\ restarts < MaxRestarts
    /\ restarts' = restarts + 1
    /\ activitiesOnDisk' \in ActivityCatalogs \cup {MissingFile}
    /\ embeddingModel' \in EmbeddingModels
    /\ _activity_matcher' = NoMatcher
    /\ instances' = NoInstances
    /\ actSelf' = [c \in Callers |-> NoMatcher]
    /\ all_embeddings' = [c \in Callers |-> <<>>]
    /\ generations' = 0
    /\ cacheWrites' = 0
    /\ UNCHANGED <<embeddingsOnDisk, actPc, findProvider, findOut, selection>>
    /\ UNCHANGED <<locVars, refVars, convVars, normVars, sizeVars, sectVars,
                   mergeVars>>

(***************************************************************************)
(* Properties of the activity matcher                                      *)
(***************************************************************************)
\* what a search returns when the provider answers and no label is above the
\* threshold
FarSearch ==
    find_similar_activities(instances[_activity_matcher],
                            get_openai_embedding("Plomberie", embeddingModel, TRUE))

\* C21: a failure of the embedding provider during a search does not raise
\* out of find_similar_activities, and its outcome differs from that of a
\* successful search that found no activity above the threshold: the NAF
\* selection of process_with_api does not take the failure for "no activity
\* found".
C21_ProviderFailureIsNotNoMatch ==
    findProvider = "failure" =>
        /\ findOut # FarSearch
        /\ ~selection.no_good_match

\* the vectors of a label list under a model, index by index
VectorsOf(activities, model) ==
    [i \in 1..Len(activities) |-> Embedding(activities[i], model)]

\* the cache file holds a vector for each of its labels, computed with its
\* model
CacheConsistent ==
    embeddingsOnDisk # Nothing =>
        ValueOf(embeddingsOnDisk).embeddings =
            VectorsOf(ValueOf(embeddingsOnDisk).activities,
                      ValueOf(embeddingsOnDisk).model)

\* the vectors a matcher uses are those of the current catalog under the
\* configured model
InUseCurrent ==
    \A c \in Callers :
        instances[c].embeddings # Nothing =>
            /\ instances[c].activities = activitiesOnDisk
            /\ ValueOf(instances[c].embeddings) =
                   VectorsOf(activitiesOnDisk, embeddingModel)

\* the fingerprint of the cache file is that of the catalog and the model
FingerprintCurrent ==
    /\ embeddingsOnDisk # Nothing
    /\ ValueOf(embeddingsOnDisk).activities = activitiesOnDisk
    /\ ValueOf(embeddingsOnDisk).model = embeddingModel

\* an initialization that read the catalog takes the vectors of the cache
\* exactly when the fingerprint is current, and otherwise starts a generation
\* from the first label
ReuseExactlyWhenCurrent ==
    \A c \in Callers :
        (/\ actPc[c] = "initializing"
         /\ actPc'[c] # "initializing"
         /\ activitiesOnDisk # MissingFile) =>
            IF FingerprintCurrent
            THEN /\ actPc'[c] = "returned"
                 /\ instances'[_activity_matcher].embeddings =
                        Some(ValueOf(embeddingsOnDisk).embeddings)
                 /\ generations' = generations
            ELSE /\ actPc'[c] = "generating"
                 /\ all_embeddings'[c] = <<>>
                 /\ generations' = generations + 1

\* a generation that got all its batches writes the vectors of all current
\* labels with the current fingerprint
RegenerationPersisted ==
    \A c \in Callers :
        (actPc[c] = "saving" /\ actPc'[c] = "returned") =>
            embeddingsOnDisk' =
                Some(CacheData(activitiesOnDisk,
                               VectorsOf(activitiesOnDisk, embeddingModel),
                               embeddingModel))

C23_SingleGeneration ==
    /\ generations <= 1
    /\ cacheWrites <= 1

(***************************************************************************)
(* Specifications                                                          *)
(***************************************************************************)
\* the location matcher with its three files read in full
InitLocLoaded ==
    /\ InitLoc
    /\ initialized
    /\ communes # <<>> /\ departements # <<>> /\ regions # <<>>

\* the location matcher alone, over every outcome of initialize()
InitSpecLoc ==
    InitLoc /\ InitRef /\ InitConv /\ InitNorm /\ InitSize /\ InitSect /\ InitMerge
    /\ InitAct
SpecLoc == InitSpecLoc /\ [][NextLoc]_vars

\* the others, with the reference files read
InitLoaded ==
    InitLocLoaded /\ InitRef /\ InitConv /\ InitNorm /\ InitSize /\ InitSect
    /\ InitMerge /\ InitAct

\* the refinement controller
SpecRefine == InitLoaded /\ [][NextRef]_vars

\* the post-processing of the language model's output
NextNorm == NormalizeCall \/ AgentPostProcessCall \/ NormReturn
SpecNorm == InitLoaded /\ [][NextNorm]_vars

\* the endpoints
NextConv ==
    create_conversation \/ send_message \/ delete_conversation \/ chat \/ RequestDone
SpecConv == InitLoaded /\ [][NextConv]_vars

\* the size matcher
NextSize == ParseCall \/ SizeTransformCall \/ SizeReturn

SpecSize == InitLoaded /\ [][NextSize]_vars

\* the sector matcher
NextSect == SectorMatcherInit \/ SectorMatchCall \/ SectorReturn

SpecSect == InitLoaded /\ [][NextSect]_vars

\* the merges of a refinement
NextMerge == StorePartial \/ MergeTurn \/ MergeDone

SpecMerge == InitLoaded /\ [][NextMerge]_vars

\* the activity matcher and its callers
NextAct ==
    CheckSingleton \/ CreateMatcher \/ Initialize \/ GenerateBatch \/ SaveCache
    \/ FindSimilar \/ SearchDone \/ Restart

SpecAct == InitLoaded /\ [][NextAct]_vars

=============================================================================
